---- MODULE Spec2Model ----
(***************************************************************************)
(* Okapiq market-intelligence backend: the multi-source collection /       *)
(* deduplication pipeline and the analytics calculators.                   *)
(*                                                                         *)
(* Text is modelled as sequences of one-character strings, so that         *)
(* lower(), strip(), the regular-expression substitutions and the prefix   *)
(* tests are computed character by character as the Python code does.      *)
(* Ratings are integers in tenths of a star (45 is 4.5).                   *)
(***************************************************************************)
EXTENDS Integers, Sequences, FiniteSets, TLC

VARIABLES
    collected,          \* directory results as the adapters returned them (never mutated)
    all_businesses,     \* intelligence.py: the list handed to aggregate_business_data
    pipeline,           \* which deduplicator has been applied to the collected list
    runs,               \* results of successive aggregate_business_data calls
    deduped,            \* result of the forked scan's in-line merge
    unique_businesses,  \* result of FragmentFinderService._deduplicate_businesses
    route,              \* the endpoint serving the current request ("idle": none)
    request,            \* the request body
    directory,          \* what each external directory answers to this request's queries
    tasks,              \* the adapter calls made for the request, in creation order
    aggregate_input,    \* the records the scan handed to its deduplicator
    response,           \* the HTTP response, once sent
    hhi_businesses,     \* the business list given to the concentration calculator
    hhi_phase,          \* "input" while the list is built, "done" once calculated
    hhi_proxy,          \* the proxy of the calculation
    hhi_result,         \* the dict calculate_hhi_index returned
    hhi_index,          \* the value FragmentFinderService._calculate_hhi returned
    revenue_calls,      \* calculate_revenue_estimate calls: their arguments and results
    population_cache,   \* MathematicalAnalyticsService.population_cache
    density_calls,      \* calculate_business_density calls, in the order they were served
    filter_input,       \* the name and industry given to the relevance filters
    verdict,            \* what each fork's _is_relevant_business answered
    adapter_lists,      \* the record lists the two adapters of a scan returned
    merged_in_order,    \* aggregate_business_data of the lists, per order of extension
    discovered_in_order, \* the businesses discover_businesses kept, per order of results
    risk_input,         \* the business_data given to calculate_business_succession_risk
    risk_result,        \* the sub-scores and the score it computed
    sample_businesses,  \* the businesses a forked scan is about to normalize
    overview            \* the normalized businesses and the market figures of the response

dedupVars == <<collected, all_businesses, pipeline, runs, deduped, unique_businesses>>

scanVars == <<route, request, directory, tasks, aggregate_input, response>>

hhiVars == <<hhi_businesses, hhi_phase, hhi_proxy, hhi_result, hhi_index>>

calcVars == <<revenue_calls, population_cache, density_calls>>

filterVars == <<filter_input, verdict>>

orderVars == <<adapter_lists, merged_in_order, discovered_in_order>>

riskVars == <<risk_input, risk_result>>

overviewVars == <<sample_businesses, overview>>

vars == <<dedupVars, scanVars, hhiVars, calcVars, filterVars, orderVars, riskVars,
          overviewVars>>

-----------------------------------------------------------------------------
(* Python text primitives *)

UpperLetters == <<"A","B","C","D","E","F","G","H","I","J","K","L","M",
                  "N","O","P","Q","R","S","T","U","V","W","X","Y","Z">>

LowerLetters == <<"a","b","c","d","e","f","g","h","i","j","k","l","m",
                  "n","o","p","q","r","s","t","u","v","w","x","y","z">>

DigitChars == {"0","1","2","3","4","5","6","7","8","9"}

UpperSet == {UpperLetters[i] : i \in DOMAIN UpperLetters}

LowerSet == {LowerLetters[i] : i \in DOMAIN LowerLetters}

IsUpper(c) == c \in UpperSet

IsLower(c) == c \in LowerSet

\* the lower-case letter of every upper-case letter
LowerOf ==
    [c \in UpperSet |-> LowerLetters[CHOOSE i \in DOMAIN UpperLetters : UpperLetters[i] = c]]

\* str.lower() on one character
lower_char(c) == IF IsUpper(c) THEN LowerOf[c] ELSE c

\* str.lower()
lower(s) == [i \in 1..Len(s) |-> lower_char(s[i])]

\* str.isspace() on one character, the class \s of re
isspace(c) == c \in {" ", "\t", "\n"}

\* str.isalnum() on one character
isalnum(c) == IsUpper(c) \/ IsLower(c) \/ c \in DigitChars

\* the class \w of re: letters, digits and the underscore
IsWordChar(c) == isalnum(c) \/ c = "_"

RECURSIVE lstrip(_)
lstrip(s) == IF s # <<>> /\ isspace(Head(s)) THEN lstrip(Tail(s)) ELSE s

RECURSIVE rstrip(_)
rstrip(s) ==
    IF s # <<>> /\ isspace(s[Len(s)]) THEN rstrip(SubSeq(s, 1, Len(s) - 1)) ELSE s

\* str.strip()
strip(s) == rstrip(lstrip(s))

\* str.startswith(prefix)
startswith(s, prefix) ==
    Len(prefix) <= Len(s) /\ SubSeq(s, 1, Len(prefix)) = prefix

\* the Python test `sub in s` on strings
Contains(s, sub) ==
    \E i \in 0..(Len(s) - Len(sub)) : SubSeq(s, i + 1, i + Len(sub)) = sub

\* re.sub(r'[^\w\s]', '', s)
SubNonWord(s) == SelectSeq(s, LAMBDA c : IsWordChar(c) \/ isspace(c))

\* re.sub(r'\s+', ' ', s): every maximal run of whitespace becomes one blank
RECURSIVE SubWhitespaceRuns(_)
SubWhitespaceRuns(s) ==
    IF s = <<>> THEN <<>>
    ELSE IF isspace(Head(s)) THEN <<" ">> \o SubWhitespaceRuns(lstrip(s))
    ELSE <<Head(s)>> \o SubWhitespaceRuns(Tail(s))

Range(f) == {f[i] : i \in DOMAIN f}

-----------------------------------------------------------------------------
(* Directory results: what the external directories return for one place *)

NoText == <<>>
NotAvailable == <<"N","/","A">>

JoesHvacA == <<"J","o","e","'","s"," ","H","V","A","C">>
JoesHvacB == <<"J","o","e","s"," ","H","v","a","c">>
JoesHvacC == <<" ","j","o","e","s"," "," ","h","v","a","c"," ">>
AcmeAir == <<"A","c","m","e"," ","A","i","r">>
BlankName == <<" "," ">>

SiteJoes == <<"j","o","e","s","h","v","a","c",".","c","o","m">>
SiteYelpJoes == <<"y","e","l","p",".","c","o","m","/","j","o","e","s","-","h","v","a","c">>
PhoneJoes == <<"2","1","7","-","5","5","5","-","0","1","0","0">>
PhoneOther == <<"5","5","5","-","0","1","9","9">>
AddressLong == <<"1","2","3"," ","M","a","i","n"," ","S","t",","," ","S","p","r","i","n","g",
                 "f","i","e","l","d",","," ","I","L"," ","6","2","7","0","1">>
AddressShort == <<"1","2","3"," ","M","a","i","n"," ","S","t","r","e","e","t">>

\* source A of the merge scenario: rated and reviewed, no contact data
ProfileA == [address |-> AddressLong, phone |-> NoText, website |-> NoText,
             rating |-> 45, review_count |-> 80, source |-> "yelp"]

\* source B of the merge scenario: bare-domain website and a phone, unrated
ProfileB == [address |-> AddressShort, phone |-> PhoneJoes, website |-> SiteJoes,
             rating |-> 0, review_count |-> 0, source |-> "google_maps"]

\* a listing whose website is a directory page, with more reviews and no phone
ProfileC == [address |-> AddressLong, phone |-> NoText, website |-> SiteYelpJoes,
             rating |-> 40, review_count |-> 120, source |-> "google_maps"]

\* a listing with only another phone
ProfileD == [address |-> AddressShort, phone |-> PhoneOther, website |-> NoText,
             rating |-> 45, review_count |-> 80, source |-> "yelp"]

Named(name, profile) ==
    [name |-> name, address |-> profile.address, phone |-> profile.phone,
     website |-> profile.website, rating |-> profile.rating,
     review_count |-> profile.review_count, source |-> profile.source]

DirectoryResults ==
    {Named(JoesHvacA, ProfileA), Named(JoesHvacB, ProfileB), Named(JoesHvacC, ProfileC),
     Named(JoesHvacA, ProfileD), Named(AcmeAir, ProfileB), Named(BlankName, ProfileA)}

MaxRecords == 3
MaxRuns == 2

-----------------------------------------------------------------------------
(* intelligence.py: adapter normalisation *)

\* search_google_maps_places: the business dict built from place_details; the
\* website is copied as the directory gave it and the email is left empty
GoogleBusiness(item) ==
    [name |-> item.name, address |-> item.address,
     phone |-> item.phone, website |-> item.website, email |-> NoText,
     rating |-> item.rating, review_count |-> item.review_count,
     data_sources |-> <<"google_maps">>, source_count |-> 1]

\* search_yelp_businesses: Yelp gives no website
YelpBusiness(item) ==
    [name |-> item.name, address |-> item.address,
     phone |-> item.phone, website |-> NoText, email |-> NoText,
     rating |-> item.rating, review_count |-> item.review_count,
     data_sources |-> <<"yelp">>, source_count |-> 1]

AdapterBusiness(item) ==
    IF item.source = "google_maps" THEN GoogleBusiness(item) ELSE YelpBusiness(item)

-----------------------------------------------------------------------------
(* intelligence.py: aggregate_business_data *)

\* the grouping key of a (stripped) name
normalized_name(name) == SubWhitespaceRuns(strip(SubNonWord(lower(name))))

GroupKey(b) == normalized_name(strip(b.name))

\* records with an empty name after strip() are skipped
HasName(b) == strip(b.name) # <<>>

\* the keys of business_groups in insertion order, after the first n records
RECURSIVE business_group_keys(_, _)
business_group_keys(bs, n) ==
    IF n = 0 THEN <<>>
    ELSE LET prev == business_group_keys(bs, n - 1)
         IN IF HasName(bs[n]) /\ GroupKey(bs[n]) \notin Range(prev)
            THEN Append(prev, GroupKey(bs[n]))
            ELSE prev

\* business_groups[key]: the positions of the group's records, in input order
business_group(bs, key) ==
    SelectSeq([i \in 1..Len(bs) |-> i],
              LAMBDA i : HasName(bs[i]) /\ GroupKey(bs[i]) = key)

\* the key of max(): a tuple, compared lexicographically
completeness(b) == <<Len(b.website), Len(b.phone), Len(b.email), b.review_count>>

TupleLess(a, b) ==
    \E k \in 1..Len(a) : a[k] < b[k] /\ \A j \in 1..(k - 1) : a[j] = b[j]

\* variant: the first record of the group is the base
first_business(bs, g) == g[1]

\* max(group_businesses, key=...): the first record no other record exceeds
base_business(bs, g) ==
    g[CHOOSE p \in 1..Len(g) :
        /\ \A q \in 1..Len(g) : ~TupleLess(completeness(bs[g[p]]), completeness(bs[g[q]]))
        /\ \A q \in 1..(p - 1) : TupleLess(completeness(bs[g[q]]), completeness(bs[g[p]]))]

\* variant: an empty field is filled with a placeholder instead of a group value
fill_placeholder(current, candidate) ==
    IF current = NoText THEN NotAvailable ELSE current

\* `if not contact.get(f) and biz_contact.get(f): contact[f] = biz_contact[f]`
fill_if_empty(current, candidate) ==
    IF current = NoText /\ candidate # NoText THEN candidate ELSE current

\* variant: the metric is accumulated instead of maximised
summed_metric(current, candidate) == current + candidate

\* `if biz_metrics.get(f, 0) > merged_metrics.get(f, 0): merged_metrics[f] = ...`
best_metric(current, candidate) ==
    IF candidate > current THEN candidate ELSE current

\* the loop over the group: m is the contact and metrics of merged_business, which
\* base_business.copy() shares with the base record itself
RECURSIVE merge_loop(_, _, _, _, _)
merge_loop(m, bs, g, base, p) ==
    IF p > Len(g) THEN m
    ELSE LET biz == IF g[p] = base THEN m ELSE bs[g[p]]
         IN merge_loop([website |-> fill_if_empty(m.website, biz.website),
                        phone |-> fill_if_empty(m.phone, biz.phone),
                        email |-> fill_if_empty(m.email, biz.email),
                        rating |-> best_metric(m.rating, biz.rating),
                        review_count |-> best_metric(m.review_count, biz.review_count)],
                       bs, g, base, p + 1)

merged_fields(bs, g) ==
    LET base == base_business(bs, g)
    IN merge_loop([website |-> bs[base].website, phone |-> bs[base].phone,
                   email |-> bs[base].email, rating |-> bs[base].rating,
                   review_count |-> bs[base].review_count], bs, g, base, 1)

\* variant: only the base record's sources are kept
base_sources(bs, g) == Range(bs[base_business(bs, g)].data_sources)

\* all_sources.update(biz.get('data_sources', [])) over the group
all_sources(bs, g) == UNION {Range(bs[g[p]].data_sources) : p \in 1..Len(g)}

\* the merged_business appended for one group
merged_business(bs, g) ==
    LET base == base_business(bs, g)
        m == merged_fields(bs, g)
    IN [name |-> bs[base].name, address |-> bs[base].address,
        website |-> m.website, phone |-> m.phone, email |-> m.email,
        rating |-> m.rating, review_count |-> m.review_count,
        data_sources |-> all_sources(bs, g),
        source_count |-> Cardinality(all_sources(bs, g))]

\* the returned list `aggregated`, one merged business per group in group order
aggregate_business_data(bs) ==
    LET keys == business_group_keys(bs, Len(bs))
    IN [k \in 1..Len(keys) |-> merged_business(bs, business_group(bs, keys[k]))]

\* the input list after the call: the shallow copy leaves the base record's contact
\* and metrics dicts shared with merged_business, so the merge writes into them
businesses_after_aggregate(bs) ==
    [i \in 1..Len(bs) |->
        IF HasName(bs[i]) /\ base_business(bs, business_group(bs, GroupKey(bs[i]))) = i
        THEN LET m == merged_fields(bs, business_group(bs, GroupKey(bs[i])))
             IN [bs[i] EXCEPT !.website = m.website, !.phone = m.phone,
                              !.email = m.email, !.rating = m.rating,
                              !.review_count = m.review_count]
        ELSE bs[i]]

-----------------------------------------------------------------------------
(* intelligence_broken.py / intelligence_working_broken.py: the forked scan *)

HttpsPrefix == <<"h","t","t","p","s",":","/","/">>
HttpPrefix == <<"h","t","t","p",":","/","/">>

AggregatorDomains ==
    {<<"y","e","l","p",".","c","o","m">>,
     <<"f","a","c","e","b","o","o","k",".","c","o","m">>,
     <<"l","i","n","k","e","d","i","n",".","c","o","m">>,
     <<"y","e","l","l","o","w","p","a","g","e","s",".","c","o","m">>}

\* website_val: stripped, and prefixed with https:// when it has no scheme
website_val(raw) ==
    LET w == strip(raw)
    IN IF w # NoText /\ ~(startswith(w, HttpPrefix) \/ startswith(w, HttpsPrefix))
       THEN HttpsPrefix \o w
       ELSE w

\* items without a name after strip() are skipped by the normaliser
ForkAccepts(item) == strip(item.name) # NoText

\* the dict appended to all_businesses: no 'email' and no 'review_count' key
ForkBusiness(item) ==
    [name |-> strip(item.name), address |-> item.address, phone |-> item.phone,
     website |-> website_val(item.website), rating |-> item.rating,
     reviews |-> item.review_count, source |-> item.source]

\* dict.get(key, default)
Get(d, key, default) == IF key \in DOMAIN d THEN d[key] ELSE default

\* normalized_key: only isalnum() and isspace() characters kept, then split/join
normalized_key(name) ==
    SubWhitespaceRuns(strip(SelectSeq(strip(lower(name)),
                                      LAMBDA c : isalnum(c) \/ isspace(c))))

RECURSIVE fork_group_keys(_, _)
fork_group_keys(bs, n) ==
    IF n = 0 THEN <<>>
    ELSE LET prev == fork_group_keys(bs, n - 1)
         IN IF normalized_key(bs[n].name) \notin Range(prev)
            THEN Append(prev, normalized_key(bs[n].name))
            ELSE prev

fork_group(bs, key) ==
    SelectSeq([i \in 1..Len(bs) |-> i], LAMBDA i : normalized_key(bs[i].name) = key)

\* the set collected for one contact field: stripped values, neither '' nor 'N/A'
collected_values(bs, g, field) ==
    {strip(Get(bs[g[p]], field, NoText)) : p \in 1..Len(g)} \ {NoText, NotAvailable}

\* all_sources of the forked merge: the non-empty 'source' tags of the group
fork_sources(bs, g) == {Get(bs[g[p]], "source", "") : p \in 1..Len(g)} \ {""}

\* best_rating
RECURSIVE fork_best_rating(_, _, _)
fork_best_rating(bs, g, p) ==
    IF p = 0 THEN 0
    ELSE LET prev == fork_best_rating(bs, g, p - 1)
             rating == Get(bs[g[p]], "rating", 0)
         IN IF rating # 0 /\ rating > prev THEN rating ELSE prev

\* total_reviews: the sum of the 'review_count' values, a key these dicts lack
RECURSIVE fork_total_reviews(_, _, _)
fork_total_reviews(bs, g, p) ==
    IF p = 0 THEN 0
    ELSE fork_total_reviews(bs, g, p - 1) + Get(bs[g[p]], "review_count", 0)

IsAggregatorSite(w) == \E domain \in AggregatorDomains : Contains(lower(w), domain)

\* list(a_set)[0]: the iteration order of a set of strings is not fixed; `first`
\* is the value this process happens to put first when it is in the set
first_of(values, first) ==
    IF values = {} THEN NoText
    ELSE IF first \in values THEN first
    ELSE CHOOSE v \in values : TRUE

best_website(websites, first) ==
    LET real_websites == {w \in websites : ~IsAggregatorSite(w)}
    IN IF real_websites # {} THEN first_of(real_websites, first)
       ELSE first_of(websites, first)

fork_merged_business(bs, g, first_site, first_phone) ==
    LET base == bs[g[1]]
    IN [name |-> base.name, address |-> base.address, reviews |-> base.reviews,
        source |-> base.source,
        website |-> best_website(collected_values(bs, g, "website"), first_site),
        phone |-> first_of(collected_values(bs, g, "phone"), first_phone),
        email |-> first_of(collected_values(bs, g, "email"), NoText),
        rating |-> fork_best_rating(bs, g, Len(g)),
        review_count |-> fork_total_reviews(bs, g, Len(g)),
        data_sources |-> fork_sources(bs, g),
        source_count |-> Cardinality(fork_sources(bs, g))]

\* the key of deduped.sort(..., reverse=True)
SortsBefore(a, b) ==
    TupleLess(<<b.source_count, b.rating>>, <<a.source_count, a.rating>>)

\* a stable sort: equal keys keep their order
RECURSIVE sorted_insert(_, _)
sorted_insert(s, x) ==
    IF s = <<>> THEN <<x>>
    ELSE IF SortsBefore(x, Head(s)) THEN <<x>> \o s
    ELSE <<Head(s)>> \o sorted_insert(Tail(s), x)

RECURSIVE sorted_desc(_, _)
sorted_desc(s, n) ==
    IF n = 0 THEN <<>> ELSE sorted_insert(sorted_desc(s, n - 1), s[n])

fork_deduped(bs, first_site, first_phone) ==
    LET keys == fork_group_keys(bs, Len(bs))
        merged == [k \in 1..Len(keys) |->
                      fork_merged_business(bs, fork_group(bs, keys[k]),
                                           first_site, first_phone)]
    IN sorted_desc(merged, Len(merged))

-----------------------------------------------------------------------------
(* fragment_finder_service.py: collection and _deduplicate_businesses *)

\* the BusinessData built by _get_google_businesses / _get_yelp_businesses
FragmentBusiness(item) ==
    IF item.source = "google_maps"
    THEN [name |-> item.name, address |-> item.address, phone |-> NoText,
          rating |-> item.rating, review_count |-> item.review_count,
          source |-> "Google Places"]
    ELSE [name |-> item.name, address |-> item.address, phone |-> item.phone,
          rating |-> item.rating, review_count |-> item.review_count,
          source |-> "Yelp"]

\* str.replace(' ', '')
RemoveBlanks(s) == SelectSeq(s, LAMBDA c : c # " ")

\* s[:n]
Prefix(s, n) == SubSeq(s, 1, IF Len(s) < n THEN Len(s) ELSE n)

AddressKeyLen == 20

\* the pair (name_key, address_key) joined into the dedup key
dedup_key(business) ==
    <<RemoveBlanks(strip(lower(business.name))),
      IF business.address # NoText
      THEN Prefix(strip(lower(business.address)), AddressKeyLen)
      ELSE NoText>>

\* the first record of every key is kept, in input order
RECURSIVE _deduplicate_businesses(_, _)
_deduplicate_businesses(bs, n) ==
    IF n = 0 THEN <<>>
    ELSE LET prev == _deduplicate_businesses(bs, n - 1)
         IN IF dedup_key(bs[n]) \notin {dedup_key(bs[i]) : i \in 1..(n - 1)}
            THEN Append(prev, bs[n])
            ELSE prev

FromItems(items, f(_)) == [i \in 1..Len(items) |-> f(items[i])]

-----------------------------------------------------------------------------
(* intelligence.py: the relevance filter and the scan request *)

IndustryHvacKey == <<"h","v","a","c">>
IndustryPlumbingKey == <<"p","l","u","m","b","i","n","g">>

HvacKeywords ==
    <<<<"h","v","a","c">>,
      <<"h","e","a","t","i","n","g">>,
      <<"c","o","o","l","i","n","g">>,
      <<"a","i","r"," ","c","o","n","d","i","t","i","o","n","i","n","g">>,
      <<"a","c">>,
      <<"f","u","r","n","a","c","e">>,
      <<"h","e","a","t"," ","p","u","m","p">>,
      <<"d","u","c","t","w","o","r","k">>,
      <<"v","e","n","t","i","l","a","t","i","o","n">>,
      <<"c","l","i","m","a","t","e"," ","c","o","n","t","r","o","l">>,
      <<"t","h","e","r","m","a","l">>,
      <<"r","e","f","r","i","g","e","r","a","t","i","o","n">>,
      <<"b","o","i","l","e","r">>,
      <<"g","e","o","t","h","e","r","m","a","l">>>>

PlumbingKeywords ==
    <<<<"p","l","u","m","b","i","n","g">>,
      <<"p","l","u","m","b","e","r">>,
      <<"p","i","p","e">>,
      <<"d","r","a","i","n">>,
      <<"s","e","w","e","r">>,
      <<"w","a","t","e","r"," ","h","e","a","t","e","r">>,
      <<"f","a","u","c","e","t">>,
      <<"t","o","i","l","e","t">>,
      <<"s","i","n","k">>,
      <<"b","a","t","h","r","o","o","m">>,
      <<"k","i","t","c","h","e","n">>,
      <<"l","e","a","k">>>>

\* variant: an industry without an entry is given the hvac keywords
default_keywords(industry_lower) == HvacKeywords

\* industry_keywords.get(industry_lower, []), for the industries requests name here
industry_keywords(industry_lower) ==
    IF industry_lower = IndustryHvacKey THEN HvacKeywords
    ELSE IF industry_lower = IndustryPlumbingKey THEN PlumbingKeywords
    ELSE <<>>

\* variant: the keyword is searched anywhere in the text
search_anywhere(s, keyword) == Contains(s, keyword)

\* re.search(r'\b' + keyword + r'\b', s): an occurrence with no word character on
\* either side
SearchWord(s, keyword) ==
    \E i \in 0..(Len(s) - Len(keyword)) :
        /\ SubSeq(s, i + 1, i + Len(keyword)) = keyword
        /\ (i = 0 \/ ~IsWordChar(s[i]))
        /\ (i + Len(keyword) = Len(s) \/ ~IsWordChar(s[i + Len(keyword) + 1]))

ShortKeywordLen == 2

_is_relevant_business(business_name, industry) ==
    IF business_name = NoText \/ industry = NoText THEN TRUE
    ELSE LET keywords == industry_keywords(lower(industry))
         IN IF keywords = <<>> THEN TRUE
            ELSE \E k \in DOMAIN keywords :
                    IF Len(keywords[k]) <= ShortKeywordLen
                    THEN SearchWord(lower(business_name), keywords[k])
                    ELSE Contains(lower(business_name), keywords[k])

\* `if not industry or _is_relevant_business(business['name'], industry)`
AdapterKeeps(business, industry) ==
    industry = NoText \/ _is_relevant_business(business.name, industry)

Springfield == <<"S","p","r","i","n","g","f","i","e","l","d",","," ","I","L">>
Chicago == <<"C","h","i","c","a","g","o",","," ","I","L">>
HVAC == <<"H","V","A","C">>
Plumbing == <<"P","l","u","m","b","i","n","g">>

DefaultMaxBusinesses == 20
DefaultCrawlSources == {"google_maps", "yelp"}

\* MarketScanRequest: location is a required str with no further validation
ScanRequests ==
    [location : {NoText, Springfield},
     industry : {NoText, HVAC, Plumbing},
     max_businesses : {0, 1, DefaultMaxBusinesses},
     crawl_sources : {DefaultCrawlSources, {"google_maps"}, {}}]

\* intelligence_working_fixed.py: MarketScanRequest; crawl_sources is not read
FixedScanRequests ==
    [location : {NoText, Springfield, Chicago},
     industry : {NoText, HVAC},
     max_businesses : {0, 1, 5},
     crawl_sources : {{"google_serp"}}]

\* FragmentFinderRequest: location and industry; both sources are always queried
FragmentRequests ==
    [location : {NoText, Springfield},
     industry : {NoText, HVAC, Plumbing},
     max_businesses : {DefaultMaxBusinesses},
     crawl_sources : {DefaultCrawlSources}]

\* the listings the two directories hold; a query is answered with a prefix of them
GoogleListing ==
    <<Named(JoesHvacB, ProfileB), Named(AcmeAir, ProfileB), Named(JoesHvacC, ProfileC)>>

YelpListing ==
    <<Named(JoesHvacA, ProfileA), Named(JoesHvacA, ProfileD), Named(BlankName, ProfileA)>>

MaxResults == 2

Directories ==
    {[google_maps |-> SubSeq(GoogleListing, 1, g), yelp |-> SubSeq(YelpListing, 1, y)] :
        g \in 0..MaxResults, y \in 0..MaxResults}

NoRequest == [location |-> NoText, industry |-> NoText, max_businesses |-> 0,
              crawl_sources |-> {}]

NoDirectory == [google_maps |-> <<>>, yelp |-> <<>>]

NoResponse == [status_code |-> 0, success |-> FALSE, businesses |-> <<>>,
               total_found |-> 0]

\* a coroutine created for one adapter call
NewTask(adapter, term) ==
    [adapter |-> adapter, term |-> term, nearby |-> 0, status |-> "running",
     cursor |-> 0, businesses |-> <<>>, failed |-> FALSE]

AllReturned == \A t \in DOMAIN tasks : tasks[t].status = "returned"

\* the results the adapter iterates over: data.get('results', [])[:max_results] for
\* Google, data.get('businesses', []) for Yelp
ScanResults(task) ==
    IF task.adapter = "google_maps"
    THEN Prefix(directory.google_maps, request.max_businesses)
    ELSE directory.yelp

GooglePlacesLimit == 60

\* fragment_finder_service.py: data.get('results', [])[:60] / the Yelp pages
FragmentResults(task) ==
    IF task.adapter = "google_maps"
    THEN Prefix(directory.google_maps, GooglePlacesLimit)
    ELSE directory.yelp

\* all_businesses.extend(result) for every list result, in task order
RECURSIVE gathered(_, _)
gathered(ts, n) ==
    IF n = 0 THEN <<>> ELSE gathered(ts, n - 1) \o ts[n].businesses

EmailJoes == <<"i","n","f","o","@","j","o","e","s",".","c","o","m">>

BaseRevenue == 250000
RatingScale == 50
ReviewFactorCap == 300

Max(a, b) == IF a >= b THEN a ELSE b
Min(a, b) == IF a <= b THEN a ELSE b

\* int(base_revenue * max(1, rating / 5.0) * min(3, 1 + review_count / 100)), with the
\* rating in tenths
estimated_revenue(rating, review_count) ==
    (BaseRevenue \div (RatingScale * 100))
        * Max(RatingScale, rating) * Min(ReviewFactorCap, 100 + review_count)

\* enrich_business_data: `extracted` is what extract_email_from_website found
enrich_business_data(business, extracted) ==
    [f \in DOMAIN business \cup {"estimated_revenue"} |->
        IF f = "estimated_revenue"
        THEN estimated_revenue(business.rating, business.review_count)
        ELSE IF f = "email" /\ business.website # NoText /\ business.email = NoText
        THEN extracted
        ELSE business[f]]

-----------------------------------------------------------------------------
(* enhanced_business_discovery.py: discover_businesses *)

GenericTermCount == 5
IndustryTermCount == 4
TermsSearched == 3

\* len(search_terms): five generic terms without an industry; an industry that is not
\* a key of industry_search_terms gets itself, two variants and 'business'
search_term_count(industry) ==
    IF industry = NoText THEN GenericTermCount ELSE IndustryTermCount

\* variant: every search term gets its tasks
every_term(industry) == search_term_count(industry)

\* len(search_terms[:3])
terms_searched(industry) == Min(TermsSearched, search_term_count(industry))

\* the adapters of discover_businesses, in the order their tasks are appended
DiscoveryAdapters == <<"google_maps", "yelp", "serp">>

\* the API keys the settings hold: an adapter without a key gets no task
KeyConfigurations == SUBSET Range(DiscoveryAdapters)

nearby_map ==
    <<[city |-> <<"s","a","n"," ","f","r","a","n","c","i","s","c","o">>,
       nearby |-> <<<<"o","a","k","l","a","n","d">>,
                   <<"b","e","r","k","e","l","e","y">>,
                   <<"s","a","n"," ","j","o","s","e">>>>],
      [city |-> <<"l","o","s"," ","a","n","g","e","l","e","s">>,
       nearby |-> <<<<"s","a","n","t","a"," ","m","o","n","i","c","a">>,
                   <<"b","e","v","e","r","l","y"," ","h","i","l","l","s">>,
                   <<"p","a","s","a","d","e","n","a">>>>],
      [city |-> <<"n","e","w"," ","y","o","r","k">>,
       nearby |-> <<<<"b","r","o","o","k","l","y","n">>,
                   <<"q","u","e","e","n","s">>,
                   <<"m","a","n","h","a","t","t","a","n">>>>],
      [city |-> <<"c","h","i","c","a","g","o">>,
       nearby |-> <<<<"e","v","a","n","s","t","o","n">>,
                   <<"o","a","k"," ","p","a","r","k">>,
                   <<"s","c","h","a","u","m","b","u","r","g">>>>],
      [city |-> <<"h","o","u","s","t","o","n">>,
       nearby |-> <<<<"s","u","g","a","r"," ","l","a","n","d">>,
                   <<"t","h","e"," ","w","o","o","d","l","a","n","d","s">>,
                   <<"p","e","a","r","l","a","n","d">>>>],
      [city |-> <<"m","i","a","m","i">>,
       nearby |-> <<<<"c","o","r","a","l"," ","g","a","b","l","e","s">>,
                   <<"a","v","e","n","t","u","r","a">>,
                   <<"f","o","r","t"," ","l","a","u","d","e","r","d","a","l","e">>>>]>>

RECURSIVE nearby_of(_, _)
nearby_of(location_lower, rows) ==
    IF rows = <<>> THEN <<>>
    ELSE IF Contains(location_lower, Head(rows).city) THEN Head(rows).nearby
    ELSE nearby_of(location_lower, Tail(rows))

\* the nearby list of the first city of nearby_map the location contains
_get_nearby_locations(location) == nearby_of(lower(location), nearby_map)

NearbySearched == 2
EnoughTasks == 6

\* the extra Google search of nearby_locations[k]
NearbyTask(k) == [NewTask("google_maps", 1) EXCEPT !.nearby = k]

\* the coroutines discover_businesses hands to asyncio.gather: one per configured
\* adapter for each of search_terms[:3], and with fewer than six of them one Google
\* search for each of nearby_locations[:2]
discovery_tasks(keys, location, industry) ==
    LET configured == SelectSeq(DiscoveryAdapters, LAMBDA a : a \in keys)
        term_tasks ==
            [k \in 1..(terms_searched(industry) * Len(configured)) |->
                NewTask(configured[((k - 1) % Len(configured)) + 1],
                        ((k - 1) \div Len(configured)) + 1)]
        nearby_locations == Prefix(_get_nearby_locations(location), NearbySearched)
    IN IF Len(term_tasks) < EnoughTasks /\ "google_maps" \in keys
       THEN term_tasks \o [k \in DOMAIN nearby_locations |-> NearbyTask(k)]
       ELSE term_tasks

DiscoveryDefault == 50

\* `max_businesses=request.max_businesses or 50`
discovery_limit(req) ==
    IF req.max_businesses # 0 THEN req.max_businesses ELSE DiscoveryDefault

\* the limit a task is created with: max_businesses // len(search_terms), and
\* max_businesses // 4 for a nearby location
task_limit(task, req) ==
    IF task.nearby > 0 THEN discovery_limit(req) \div 4
    ELSE discovery_limit(req) \div search_term_count(req.industry)

\* the business dict of _discover_google_places / _discover_yelp_businesses /
\* _discover_serp_businesses
DiscoveredBusiness(item, adapter) ==
    [name |-> item.name, address |-> item.address,
     phone |-> IF adapter = "google_maps" THEN NoText ELSE item.phone,
     rating |-> item.rating, review_count |-> item.review_count,
     source |-> IF adapter = "yelp" THEN "yelp"
                ELSE IF adapter = "serp" THEN "serp_api" ELSE "google_places"]

\* what one discovery adapter returns when it does not fail: results[:limit] for
\* Google, every result for Yelp and for the SERP API (its google_local engine
\* lists Google's results), without the records that have no name
discovered(dir, adapter, limit) ==
    LET results == IF adapter = "google_maps" THEN Prefix(dir.google_maps, limit)
                   ELSE IF adapter = "serp" THEN dir.google_maps
                   ELSE dir.yelp
    IN SelectSeq([i \in 1..Len(results) |-> DiscoveredBusiness(results[i], adapter)],
                 LAMBDA b : b.name # NoText)

\* the discovery adapters that raise in one request
MaxFailing == 1

\* location.split(',')[0]
RECURSIVE BeforeComma(_)
BeforeComma(s) ==
    IF s = <<>> \/ Head(s) = "," THEN <<>> ELSE <<Head(s)>> \o BeforeComma(Tail(s))

_get_location_modifiers(location) ==
    LET city_name == strip(BeforeComma(location))
    IN <<city_name,
         city_name \o <<" ","P","r","e","m","i","u","m">>,
         city_name \o <<" ","L","o","c","a","l">>,
         <<"D","o","w","n","t","o","w","n"," ">> \o city_name,
         city_name \o <<" ","F","a","m","i","l","y">>,
         <<"B","e","s","t"," ">> \o city_name,
         city_name \o <<" ","E","x","p","r","e","s","s">>,
         <<"M","e","t","r","o"," ">> \o city_name>>

\* _get_business_templates: an industry without templates gets the restaurant ones
RestaurantTemplates ==
    <<<<"K","i","t","c","h","e","n"," ","&"," ","G","r","i","l","l">>,
      <<"B","i","s","t","r","o">>,
      <<"C","a","f","e">>,
      <<"P","i","z","z","a"," ","C","o">>,
      <<"D","i","n","e","r">>,
      <<"S","t","e","a","k","h","o","u","s","e">>,
      <<"S","u","s","h","i"," ","B","a","r">>,
      <<"T","a","c","o"," ","S","h","o","p">>,
      <<"B","u","r","g","e","r"," ","J","o","i","n","t">>,
      <<"C","o","f","f","e","e"," ","H","o","u","s","e">>>>

\* _fallback_business_discovery: max_businesses generated businesses; the random
\* phone, rating and review count are left out
_fallback_business_discovery(location, max_businesses) ==
    LET modifiers == _get_location_modifiers(location)
    IN [k \in 1..max_businesses |->
           [name |-> modifiers[((k - 1) % Len(modifiers)) + 1] \o <<" ">>
                     \o RestaurantTemplates[((k - 1) % Len(RestaurantTemplates)) + 1],
            source |-> "enhanced_fallback"]]

\* the loop over the candidates: discovered_names holds the names kept so far
RECURSIVE keep_new_names(_, _, _, _)
keep_new_names(kept, discovered_names, candidates, max_kept) ==
    IF candidates = <<>> THEN kept
    ELSE LET business_name == lower(strip(Head(candidates).name))
         IN IF business_name # NoText /\ business_name \notin discovered_names
                /\ Len(kept) < max_kept
            THEN keep_new_names(Append(kept, Head(candidates)),
                                discovered_names \cup {business_name},
                                Tail(candidates), max_kept)
            ELSE keep_new_names(kept, discovered_names, Tail(candidates), max_kept)

\* the loop that keeps the first business of every name.strip().lower()
unique_by_name(kept, candidates, max_kept) ==
    keep_new_names(kept, {lower(strip(kept[i].name)) : i \in DOMAIN kept}, candidates,
                   max_kept)

NameAndSource(b) == [name |-> b.name, source |-> b.source]

\* discover_businesses after the gather: deduplicate the results, fill up with
\* generated businesses, cut to max_businesses
discover_businesses(results, location, max_businesses) ==
    LET real == unique_by_name(<<>>, results, Len(results))
        filled == unique_by_name([i \in DOMAIN real |-> NameAndSource(real[i])],
                                 _fallback_business_discovery(location, max_businesses),
                                 max_businesses)
    IN Prefix(filled, max_businesses)

ScanIdle ==
    /\ route = "idle"
    /\ request = NoRequest
    /\ directory = NoDirectory
    /\ tasks = <<>>
    /\ aggregate_input = <<>>
    /\ response = NoResponse

-----------------------------------------------------------------------------
(* mathematical_analytics_service.py: calculate_hhi_index *)
(* Amounts are exact fractions [num, den]; Python's float rounding is not modelled. *)
(* The inputs are small numbers: shares are ratios, so only their proportions count. *)

SubwayStore == <<"S","u","b","w","a","y"," ","#","2","0","4">>

common_chains ==
    <<<<"m","c","d","o","n","a","l","d","s">>,
      <<"s","u","b","w","a","y">>,
      <<"s","t","a","r","b","u","c","k","s">>,
      <<"p","i","z","z","a"," ","h","u","t">>,
      <<"d","o","m","i","n","o","s">>,
      <<"t","a","c","o"," ","b","e","l","l">>,
      <<"k","f","c">>,
      <<"b","u","r","g","e","r"," ","k","i","n","g">>>>

\* the business dicts the calculator is given; rating 0 stands for a missing rating
AnalyticsBusinesses ==
    {[name |-> JoesHvacA, estimated_revenue |-> 1, reviews |-> 0, review_count |-> 2,
      rating |-> 50],
     [name |-> AcmeAir, estimated_revenue |-> 3, reviews |-> 1, review_count |-> 0,
      rating |-> 25],
     [name |-> SubwayStore, estimated_revenue |-> 0, reviews |-> 0, review_count |-> 0,
      rating |-> 0],
     [name |-> JoesHvacB, estimated_revenue |-> 100, reviews |-> 0, review_count |-> 2,
      rating |-> 0]}

\* a market of ten businesses with one leader: 81 five-star reviews against one
\* five-star review each, that is 90% of the review-weighted value against 1.1% each
DominatedMarket ==
    [i \in 1..10 |->
        [name |-> IF i = 1 THEN AcmeAir ELSE JoesHvacA, estimated_revenue |-> 0,
         reviews |-> 0, review_count |-> IF i = 1 THEN 81 ELSE 1, rating |-> 50]]

\* a market of n businesses of one size
EvenMarket(n) ==
    [i \in 1..n |->
        [name |-> JoesHvacA, estimated_revenue |-> 1, reviews |-> 0, review_count |-> 2,
         rating |-> 50]]

\* the sizes whose even markets score 2500, 2000, 1667 and 833
EvenMarketSizes == {4, 5, 6, 12}

MarketShareProxies == {"revenue", "reviews_weighted", "chain_independent", "equal"}

MaxAnalysed == 3

DefaultRating == 40
ChainValue == 100
IndependentValue == 10
HHIScale == 10000

\* Python's `a or b` on numbers
Or(a, b) == IF a # 0 THEN a ELSE b

RECURSIVE SumSeq(_)
SumSeq(s) == IF s = <<>> THEN 0 ELSE Head(s) + SumSeq(Tail(s))

Squares(s) == [i \in DOMAIN s |-> s[i] * s[i]]

\* reviews * (rating / 5.0), in fiftieths (the rating is in tenths)
weighted_share(business) ==
    Or(business.reviews, business.review_count) * Or(business.rating, DefaultRating)

market_value(business) ==
    IF \E c \in DOMAIN common_chains : Contains(lower(business.name), common_chains[c])
    THEN ChainValue
    ELSE IndependentValue

\* the list market_shares built for the proxy; the equal shares 1/n are counted in n-ths
market_shares(businesses, market_share_proxy) ==
    CASE market_share_proxy = "revenue" ->
            LET revenues == [i \in DOMAIN businesses |-> businesses[i].estimated_revenue]
            IN SelectSeq(revenues, LAMBDA revenue : revenue > 0)
      [] market_share_proxy = "reviews_weighted" ->
            [i \in DOMAIN businesses |-> weighted_share(businesses[i])]
      [] market_share_proxy = "chain_independent" ->
            [i \in DOMAIN businesses |-> market_value(businesses[i])]
      [] OTHER -> [i \in DOMAIN businesses |-> 1]

\* variant: the number of shares instead of their sum
share_count(shares) == Len(shares)

\* total_market_value, in the unit of the shares
total_market_value(shares) == SumSeq(shares)

\* variant: no share at all when the market has no value
no_shares(n) == [shares |-> <<>>, total |-> 1]

\* `[1.0 / len(businesses)] * len(businesses)`
equal_shares(n) == [shares |-> [i \in 1..n |-> 1], total |-> n]

\* variant: every share over the total, whatever the total is
unguarded_percentages(businesses, market_share_proxy) ==
    LET shares == market_shares(businesses, market_share_proxy)
    IN [shares |-> shares, total |-> total_market_value(shares)]

\* market_share_percentages: every share over the total
market_share_percentages(businesses, market_share_proxy) ==
    LET shares == market_shares(businesses, market_share_proxy)
    IN IF total_market_value(shares) > 0
       THEN [shares |-> shares, total |-> total_market_value(shares)]
       ELSE equal_shares(Len(businesses))

RECURSIVE GCD(_, _)
GCD(a, b) == IF b = 0 THEN a ELSE GCD(b, a % b)

RECURSIVE CommonDivisor(_)
CommonDivisor(s) == IF s = <<>> THEN 0 ELSE GCD(Head(s), CommonDivisor(Tail(s)))

\* the shares and their total in lowest terms: the ratios share / total are unchanged
lowest_terms(percentages) ==
    LET d == GCD(CommonDivisor(percentages.shares), percentages.total)
    IN IF d = 0 THEN percentages
       ELSE [shares |-> [i \in DOMAIN percentages.shares |-> percentages.shares[i] \div d],
             total |-> percentages.total \div d]

\* hhi_traditional = sum(share ** 2) * 10000
hhi_traditional(percentages) ==
    LET reduced == lowest_terms(percentages)
    IN [num |-> HHIScale * SumSeq(Squares(reduced.shares)),
        den |-> reduced.total * reduced.total]

Unconcentrated == 1500
Concentrated == 2500

\* x < limit for a fraction x
Below(x, limit) == x.num < limit * x.den

concentration_level(hhi) ==
    IF Below(hhi, Unconcentrated) THEN "Unconcentrated"
    ELSE IF Below(hhi, Concentrated) THEN "Moderately Concentrated"
    ELSE "Highly Concentrated"

\* variant: the fragmentation level named as the concentration level is
concentration_as_fragmentation(hhi) == concentration_level(hhi)

fragmentation(hhi) ==
    IF Below(hhi, Unconcentrated) THEN "Highly Fragmented"
    ELSE IF Below(hhi, Concentrated) THEN "Moderately Fragmented"
    ELSE "Consolidated"

RollupExcellent == 1000
RollupGood == 1800

\* the roll-up opportunity assessment
rollup_opportunity(hhi) ==
    IF Below(hhi, RollupExcellent) THEN "Excellent"
    ELSE IF Below(hhi, RollupGood) THEN "Good"
    ELSE IF Below(hhi, Concentrated) THEN "Moderate"
    ELSE "Limited"

\* a dict without the key: dict.get(key) is None
NoValue == "None"

\* the dict of the `except Exception` branch: a share divided by a zero total raised
hhi_failed ==
    [hhi_score |-> [num |-> 0, den |-> 1], market_concentration |-> "Unknown",
     fragmentation_level |-> NoValue, rollup_opportunity |-> NoValue]

calculate_hhi_index(businesses, market_share_proxy) ==
    IF businesses = <<>>
    THEN [hhi_score |-> [num |-> 0, den |-> 1], market_concentration |-> "No Data",
          fragmentation_level |-> NoValue, rollup_opportunity |-> NoValue]
    ELSE LET percentages == market_share_percentages(businesses, market_share_proxy)
             hhi == hhi_traditional(percentages)
         IN IF percentages.total = 0 THEN hhi_failed
            ELSE [hhi_score |-> hhi, market_concentration |-> concentration_level(hhi),
                  fragmentation_level |-> fragmentation(hhi),
                  rollup_opportunity |-> rollup_opportunity(hhi)]

FallbackHHI == 450

\* real_data_analytics.py _get_fallback_hhi_data
_get_fallback_hhi_data ==
    [hhi_score |-> [num |-> FallbackHHI, den |-> 1],
     market_concentration |-> "Unconcentrated",
     fragmentation_level |-> NoValue, rollup_opportunity |-> NoValue]

\* real_data_analytics.py calculate_business_specific_hhi: `competitors` is the list
\* with the business itself appended; the shares are percentages of the total revenue,
\* and a total of zero raises and gives the fallback data
calculate_business_specific_hhi(competitors) ==
    LET revenues == [i \in DOMAIN competitors |-> competitors[i].estimated_revenue]
        hhi == hhi_traditional([shares |-> revenues, total |-> SumSeq(revenues)])
    IN IF SumSeq(revenues) = 0 THEN _get_fallback_hhi_data
       ELSE [hhi_score |-> hhi,
             market_concentration |->
                 IF Below(hhi, Unconcentrated) THEN "Unconcentrated"
                 ELSE IF Below(hhi, Concentrated) THEN "Moderately Concentrated"
                 ELSE "Highly Concentrated",
             fragmentation_level |-> NoValue, rollup_opportunity |-> NoValue]

\* fragment_finder_service.py _calculate_hhi: the dict built from a BusinessData
business_dict(business) ==
    [name |-> business.name, reviews |-> business.review_count,
     review_count |-> business.review_count,
     rating |-> Or(business.rating, DefaultRating), estimated_revenue |-> 0]

\* the legacy branch: review counts, 1 for a business without reviews
review_counts(businesses) ==
    [i \in DOMAIN businesses |->
        IF businesses[i].review_count > 0 THEN businesses[i].review_count ELSE 1]

\* _calculate_hhi, on the 0-1 scale
_calculate_hhi(businesses, math_analytics) ==
    IF math_analytics
    THEN LET hhi_analysis ==
                 calculate_hhi_index([i \in DOMAIN businesses |-> business_dict(businesses[i])],
                                     "reviews_weighted")
         IN [num |-> hhi_analysis.hhi_score.num, den |-> hhi_analysis.hhi_score.den * HHIScale]
    ELSE IF businesses = <<>> THEN [num |-> 0, den |-> 1]
    ELSE [num |-> SumSeq(Squares(review_counts(businesses))),
          den |-> SumSeq(review_counts(businesses)) * SumSeq(review_counts(businesses))]

NoResult == [hhi_score |-> [num |-> 0, den |-> 1], market_concentration |-> "none",
             fragmentation_level |-> NoValue, rollup_opportunity |-> NoValue]

AnalyticsIdle ==
    /\ hhi_businesses = <<>>
    /\ hhi_phase = "input"
    /\ hhi_proxy = "none"
    /\ hhi_result = NoResult
    /\ hhi_index = [num |-> 0, den |-> 1]

-----------------------------------------------------------------------------
(* mathematical_analytics_service.py: calculate_revenue_estimate *)
(* Logarithms are in hundredths, rounded down; the estimate is an exact amount in *)
(* units of 1 / RevenueUnit dollars, the common denominator of the adjustments.   *)

industry_coefficients ==
    <<[key |-> <<"r","e","s","t","a","u","r","a","n","t">>, alpha |-> 12000, beta |-> 1200],
      [key |-> <<"d","e","n","t","a","l">>, alpha |-> 18000, beta |-> 1800],
      [key |-> <<"a","u","t","o","-","r","e","p","a","i","r">>, alpha |-> 8000, beta |-> 800],
      [key |-> <<"s","a","l","o","n">>, alpha |-> 6000, beta |-> 600],
      [key |-> <<"f","i","t","n","e","s","s">>, alpha |-> 15000, beta |-> 1500],
      [key |-> <<"l","e","g","a","l">>, alpha |-> 25000, beta |-> 2500],
      [key |-> <<"m","e","d","i","c","a","l">>, alpha |-> 22000, beta |-> 2200],
      [key |-> <<"r","e","t","a","i","l">>, alpha |-> 7000, beta |-> 700],
      [key |-> <<"h","v","a","c">>, alpha |-> 14000, beta |-> 1400],
      [key |-> <<"p","l","u","m","b","i","n","g">>, alpha |-> 13000, beta |-> 1300],
      [key |-> <<"c","o","n","s","u","l","t","i","n","g">>, alpha |-> 20000, beta |-> 2000],
      [key |-> <<"a","c","c","o","u","n","t","i","n","g">>, alpha |-> 16000, beta |-> 1600],
      [key |-> <<"r","e","a","l","-","e","s","t","a","t","e">>, alpha |-> 19000, beta |-> 1900],
      [key |-> <<"c","a","t","e","r","i","n","g">>, alpha |-> 10000, beta |-> 1000],
      [key |-> <<"g","e","n","e","r","a","l">>, alpha |-> 12000, beta |-> 1200]>>

General == <<"g","e","n","e","r","a","l">>
RealEstate == <<"R","e","a","l"," ","E","s","t","a","t","e">>

\* str.replace(' ', '-')
Hyphenated(s) == [i \in DOMAIN s |-> IF s[i] = " " THEN "-" ELSE s[i]]

\* industry_coefficients.get(industry_key, industry_coefficients['general'])
coefficients(industry) ==
    LET industry_key == IF industry # NoText THEN Hyphenated(lower(industry)) ELSE General
        rows == SelectSeq(industry_coefficients, LAMBDA row : row.key = industry_key)
    IN IF rows # <<>> THEN rows[1]
       ELSE SelectSeq(industry_coefficients, LAMBDA row : row.key = General)[1]

\* math.log(1 + n) in hundredths for the counts the callers pass
LogHundredths == (0 :> 0) @@ (1 :> 69) @@ (10 :> 239) @@ (50 :> 393) @@ (1000 :> 690)

ReviewCounts == {-1, 0, 1, 50, 1000}
PictureCounts == {-1, 0, 10}

\* variant: counts from a thousand on are left out of the estimate
capped_log(count) == IF count >= 0 /\ count < 1000 THEN LogHundredths[count] ELSE 0

\* `math.log(1 + count) if count >= 0 else 0`
log_count(count) == IF count >= 0 THEN LogHundredths[count] ELSE 0

\* the entries of additional_factors: a key the dict does not hold, a None, a number
Absent == [kind |-> "absent", value |-> 0]
IsNone == [kind |-> "None", value |-> 0]
Number(n) == [kind |-> "number", value |-> n]

\* additional_factors: rating in tenths, years_in_business, location_premium in tenths;
\* a value can be None, as the rating of a business without reviews is
AdditionalFactors ==
    [rating : {Absent, IsNone, Number(30), Number(35), Number(45)},
     years_in_business : {Absent, Number(2), Number(15)},
     location_premium : {Absent, Number(-10), Number(15)}]

\* the rating adjustment, in tenths
rating_factor(rating) ==
    IF rating = Absent THEN 10
    ELSE IF rating.value >= 45 THEN 12
    ELSE IF rating.value >= 40 THEN 10
    ELSE IF rating.value >= 35 THEN 8
    ELSE 6

\* the business age adjustment, in twentieths
years_factor(years) ==
    IF years = Absent THEN 20
    ELSE IF years.value >= 15 THEN 23
    ELSE IF years.value >= 5 THEN 20
    ELSE 18

\* the location premium, in tenths
premium_factor(premium) == IF premium = Absent THEN 10 ELSE premium.value

RevenueUnit == 10 * 20 * 10

adjustment_factor(additional_factors) ==
    rating_factor(additional_factors.rating)
        * years_factor(additional_factors.years_in_business)
        * premium_factor(additional_factors.location_premium)

\* a None among the factors: its comparison or product raises TypeError
raises_type_error(additional_factors) ==
    \E k \in DOMAIN additional_factors : additional_factors[k] = IsNone

MinimumRevenue == 150000
FallbackEstimate == 500000

\* max(revenue_estimate, minimum_revenue)
final_revenue_estimate(revenue_estimate) ==
    Max(revenue_estimate, MinimumRevenue * RevenueUnit)

calculate_revenue_estimate(review_count, picture_count, industry, additional_factors) ==
    IF raises_type_error(additional_factors)
    THEN [revenue_estimate |-> FallbackEstimate * RevenueUnit, error |-> TRUE]
    ELSE LET alpha == coefficients(industry).alpha
             beta == coefficients(industry).beta
             base_revenue_estimate == (alpha \div 100) * log_count(review_count)
                                          + (beta \div 100) * log_count(picture_count)
         IN [revenue_estimate |->
                 final_revenue_estimate(base_revenue_estimate
                                            * adjustment_factor(additional_factors)),
             error |-> FALSE]

MaxEstimates == 2

RevenueIdle == revenue_calls = <<>>

-----------------------------------------------------------------------------
(* mathematical_analytics_service.py: calculate_business_density *)

metro_census_data ==
    <<[key |-> <<"s","a","n"," ","f","r","a","n","c","i","s","c","o">>, population |-> 884279, total_households |-> 378438],
      [key |-> <<"l","o","s"," ","a","n","g","e","l","e","s">>, population |-> 3971883, total_households |-> 1395778],
      [key |-> <<"n","e","w"," ","y","o","r","k">>, population |-> 8230290, total_households |-> 3147295],
      [key |-> <<"c","h","i","c","a","g","o">>, population |-> 2665039, total_households |-> 1045560],
      [key |-> <<"h","o","u","s","t","o","n">>, population |-> 2302878, total_households |-> 841381],
      [key |-> <<"p","h","o","e","n","i","x">>, population |-> 1650070, total_households |-> 590151],
      [key |-> <<"p","h","i","l","a","d","e","l","p","h","i","a">>, population |-> 1567442, total_households |-> 603953],
      [key |-> <<"s","a","n"," ","a","n","t","o","n","i","o">>, population |-> 1472909, total_households |-> 517966],
      [key |-> <<"s","a","n"," ","d","i","e","g","o">>, population |-> 1381162, total_households |-> 518610],
      [key |-> <<"d","a","l","l","a","s">>, population |-> 1299544, total_households |-> 514573]>>


\* _generate_realistic_census_estimate: random.randint(75000, 450000) people and
\* 2.2 to 2.8 people per household; the two ends of the ranges
CensusEstimates ==
    {[population |-> 75000, total_households |-> 26785],
     [population |-> 450000, total_households |-> 204545]}

Census(row) == [population |-> row.population, total_households |-> row.total_households]

\* _get_realistic_census_data: the exact match, then the first metro area whose key
\* contains the location or is contained in it, then the generated estimate
_get_realistic_census_data(location, estimate) ==
    LET location_key == lower(location)
        exact == SelectSeq(metro_census_data, LAMBDA row : row.key = location_key)
        partial == SelectSeq(metro_census_data,
                             LAMBDA row : Contains(location_key, row.key)
                                          \/ Contains(row.key, location_key))
    IN IF exact # <<>> THEN Census(exact[1])
       ELSE IF partial # <<>> THEN Census(partial[1])
       ELSE estimate

\* variant: the census data is looked up again at every call
fetch_uncached(cache, location, estimate) ==
    _get_realistic_census_data(location, estimate)

\* _fetch_census_acs_data: the cached entry of location.lower() when there is one
_fetch_census_acs_data(cache, location, estimate) ==
    IF lower(location) \in DOMAIN cache THEN cache[lower(location)]
    ELSE _get_realistic_census_data(location, estimate)

\* calculate_business_density: the density is the fraction count / denominator
calculate_business_density(census_data, businesses_count, use_households) ==
    LET denominator == IF use_households THEN census_data.total_households
                       ELSE census_data.population
    IN [business_density |-> IF denominator > 0
                             THEN [num |-> businesses_count, den |-> denominator]
                             ELSE [num |-> 0, den |-> 1],
        population_base |-> denominator]

BusinessCounts == {0, 1, 2}

DensityLocations == {NoText, Chicago, Springfield}

MaxDensityCalls == 2
MaxServices == 2

\* no calculator has served a call yet; population_cache = {} as __init__ leaves it
NewCache == [service |-> 1, entries |-> <<>>]

DensityIdle == population_cache = NewCache /\ density_calls = <<>>

-----------------------------------------------------------------------------
(* intelligence_working_fixed.py (and intelligence_broken.py): _is_relevant_business *)

Healthcare == <<"h","e","a","l","t","h","c","a","r","e">>
Financial == <<"f","i","n","a","n","c","i","a","l">>
Accounting == <<"a","c","c","o","u","n","t","i","n","g">>
Entertainment == <<"e","n","t","e","r","t","a","i","n","m","e","n","t">>

\* exclusion_keywords: each conditional expression is one element of the list literal,
\* so it decides about the keyword in front of `if` and about no other keyword
exclusion_keywords(industry_lower) ==
    <<<<"c","h","u","r","c","h">>,
      <<"t","e","m","p","l","e">>,
      <<"m","o","s","q","u","e">>,
      <<"s","y","n","a","g","o","g","u","e">>,
      <<"r","e","l","i","g","i","o","u","s">>,
      <<"m","i","n","i","s","t","r","y">>,
      <<"r","a","d","i","o">>,
      <<"t","v">>,
      <<"t","e","l","e","v","i","s","i","o","n">>,
      <<"b","r","o","a","d","c","a","s","t">>,
      <<"m","e","d","i","a">>,
      <<"s","t","a","t","i","o","n">>,
      <<"s","c","h","o","o","l">>,
      <<"u","n","i","v","e","r","s","i","t","y">>,
      <<"c","o","l","l","e","g","e">>,
      <<"e","d","u","c","a","t","i","o","n">>,
      <<"l","i","b","r","a","r","y">>,
      <<"g","o","v","e","r","n","m","e","n","t">>,
      <<"c","i","t","y">>,
      <<"c","o","u","n","t","y">>,
      <<"s","t","a","t","e">>,
      <<"f","e","d","e","r","a","l">>,
      <<"m","u","n","i","c","i","p","a","l">>,
      <<"h","o","s","p","i","t","a","l">>,
      <<"m","e","d","i","c","a","l"," ","c","e","n","t","e","r">>,
      IF industry_lower # Healthcare THEN <<"c","l","i","n","i","c">> ELSE NoText,
      <<"b","a","n","k">>,
      <<"c","r","e","d","i","t"," ","u","n","i","o","n">>,
      <<"f","i","n","a","n","c","i","a","l">>,
      IF industry_lower \notin {Accounting, Financial} THEN <<"i","n","s","u","r","a","n","c","e">> ELSE NoText,
      <<"m","u","s","e","u","m">>,
      <<"g","a","l","l","e","r","y">>,
      <<"t","h","e","a","t","e","r">>,
      IF industry_lower # Entertainment THEN <<"e","n","t","e","r","t","a","i","n","m","e","n","t">> ELSE NoText>>

\* `if keyword and keyword in name_lower: return False`
excluded(name_lower, industry_lower) ==
    \E k \in DOMAIN exclusion_keywords(industry_lower) :
        /\ exclusion_keywords(industry_lower)[k] # NoText
        /\ Contains(name_lower, exclusion_keywords(industry_lower)[k])

hvac_patterns ==
    <<<<"h","e","a","t","i","n","g">>,
      <<"c","o","o","l","i","n","g">>,
      <<"c","l","i","m","a","t","e">>,
      <<"c","o","m","f","o","r","t">>,
      <<"t","h","e","r","m","a","l">>,
      <<"m","e","c","h","a","n","i","c","a","l">>,
      <<"c","o","n","t","r","a","c","t","o","r">>>>

PatternWordLen == 3

\* a keyword of the list matches: on word boundaries when it is short, anywhere else
matches_any(name_lower, keywords, short_len) ==
    \E k \in DOMAIN keywords :
        IF Len(keywords[k]) <= short_len
        THEN SearchWord(name_lower, keywords[k])
        ELSE Contains(name_lower, keywords[k])

\* _is_relevant_business of intelligence_working_fixed.py
_is_relevant_business_fixed(business_name, industry) ==
    IF business_name = NoText \/ industry = NoText THEN TRUE
    ELSE LET name_lower == lower(business_name)
             industry_lower == lower(industry)
             relevant_keywords == industry_keywords(industry_lower)
         IN IF excluded(name_lower, industry_lower) THEN FALSE
            ELSE IF relevant_keywords = <<>> THEN TRUE
            ELSE IF matches_any(name_lower, relevant_keywords, ShortKeywordLen) THEN TRUE
            ELSE industry_lower = IndustryHvacKey
                 /\ matches_any(name_lower, hvac_patterns, PatternWordLen)

FirstBaptistChurch == <<"F","i","r","s","t"," ","B","a","p","t","i","s","t"," ","C","h","u","r","c","h">>
GraceChurchHeating == <<"G","r","a","c","e"," ","C","h","u","r","c","h"," ","H","e","a","t","i","n","g">>
MercyHospital == <<"M","e","r","c","y"," ","H","o","s","p","i","t","a","l">>
FirstNationalBank == <<"F","i","r","s","t"," ","N","a","t","i","o","n","a","l"," ","B","a","n","k">>
ValleyClinic == <<"V","a","l","l","e","y"," ","C","l","i","n","i","c">>
ComfortMechanical == <<"C","o","m","f","o","r","t"," ","M","e","c","h","a","n","i","c","a","l">>

AcPros == <<"A","C"," ","P","r","o","s">>

CandidateNames ==
    {FirstBaptistChurch, GraceChurchHeating, MercyHospital, FirstNationalBank,
     ValleyClinic, ComfortMechanical, JoesHvacA, AcmeAir, AcPros, NoText}

CandidateIndustries == {NoText, HVAC, Plumbing, Healthcare, Financial}

Answer(relevant) == IF relevant THEN "accepted" ELSE "rejected"

NoVerdict == [intelligence |-> "none", fixed |-> "none"]

-----------------------------------------------------------------------------
(* real_data_analytics.py: calculate_business_succession_risk *)
(* Risk scores are in tenths of a point; the revenues drawn are multiples of 20000 *)
(* dollars, for which the divisions of the scale score are exact in tenths.        *)

SmithAndSons == <<"S","m","i","t","h"," ","&"," ","S","o","n","s"," ","H","e","a","t","i","n","g">>

FamilySite ==
    <<"h","t","t","p","s",":","/","/","w","w","w",".","s","m","i","t","h","f","a","m","i","l","y",
      "s","e","r","v","i","c","e",".","n","e","t","/","a","b","o","u","t">>

JoesSite == <<"j","o","e","s","h","v","a","c",".","c","o","m">>

RiskNames == {SmithAndSons, AcmeAir}
RiskWebsites == {NoText, NotAvailable, FamilySite, JoesSite}
RiskYears == {-1, 10, 15, 25, 40}
RiskRevenues == {0, 1000000, 2500000, 5000000}
RiskEmployees == {0, 8}
\* ratings in tenths
RiskRatings == {0, 45}

\* random.randint(-3, 3)
AgeJitter == -3..3

\* the index after the first "://" of a URL, 0 when it has none
RECURSIVE AfterScheme(_, _)
AfterScheme(url, i) ==
    IF i + 2 > Len(url) THEN 0
    ELSE IF SubSeq(url, i, i + 2) = <<":","/","/">> THEN i + 3
    ELSE AfterScheme(url, i + 1)

RECURSIVE UpToSlash(_)
UpToSlash(s) ==
    IF s = <<>> \/ Head(s) = "/" THEN <<>> ELSE <<Head(s)>> \o UpToSlash(Tail(s))

\* urlparse(website).netloc of a URL without a query or a fragment
netloc(url) ==
    IF AfterScheme(url, 1) = 0 THEN <<>>
    ELSE UpToSlash(SubSeq(url, AfterScheme(url, 1), Len(url)))

\* str.replace(old, '')
RECURSIVE Removed(_, _)
Removed(s, old) ==
    IF s = <<>> THEN <<>>
    ELSE IF startswith(s, old) THEN Removed(SubSeq(s, Len(old) + 1, Len(s)), old)
    ELSE <<Head(s)>> \o Removed(Tail(s), old)

DomainPatterns ==
    {<<"s","e","r","v","i","c","e">>, <<"c","o","m","p","a","n","y">>, <<"c","o","r","p">>,
     <<"i","n","c">>}

OldestDomain == 25

\* the age before the random term is added
domain_heuristic(website) ==
    LET domain == Removed(IF startswith(website, <<"h","t","t","p">>)
                          THEN netloc(website) ELSE website,
                          <<"w","w","w",".">>)
    IN (IF Contains(domain, <<".","c","o","m">>) THEN 8
        ELSE IF Contains(domain, <<".","n","e","t">>) \/ Contains(domain, <<".","o","r","g">>)
             THEN 12
        ELSE 0)
       + (IF Len(domain) < 10 THEN 5 ELSE IF Len(domain) > 20 THEN -2 ELSE 0)
       + (IF \E pattern \in DomainPatterns : Contains(domain, pattern) THEN 6 ELSE 0)

\* jitter is the value random.randint(-3, 3) returned
_get_domain_registration_age(website, jitter) ==
    IF website = NoText \/ website = NotAvailable THEN 0
    ELSE Max(0, Min(OldestDomain, domain_heuristic(website) + jitter))

WebsiteFamilyWords ==
    {<<"f","a","m","i","l","y">>, <<"s","o","n","s">>, <<"b","r","o","t","h","e","r","s">>,
     <<"h","e","r","i","t","a","g","e">>}

family_indicators ==
    {<<"f","a","m","i","l","y">>, <<"s","o","n","s">>, <<"b","r","o","t","h","e","r","s">>,
     <<"s","r">>, <<"j","r">>, <<"h","e","r","i","t","a","g","e">>, <<"l","e","g","a","c","y">>,
     <<"&"," ","s","o","n">>}

BaseSignal == 50

\* signals['succession_indicators'], in points; domain_age is the age its own call of
\* _get_domain_registration_age returned
_analyze_leadership_signals(business_name, website, domain_age) ==
    BaseSignal
    + (IF website # NoText /\ domain_age > 10
          /\ \E word \in WebsiteFamilyWords : Contains(lower(website), word)
       THEN 20 ELSE 0)
    + (IF website # NoText /\ domain_age > 15 THEN 15 ELSE 0)
    + (IF \E indicator \in family_indicators : Contains(lower(business_name), indicator)
       THEN 25 ELSE 0)

age_risk(years_in_business) ==
    10 * Min(100, IF years_in_business >= 25 THEN 85 + (years_in_business - 25) * 2
                  ELSE IF years_in_business >= 15 THEN 45 + (years_in_business - 15) * 4
                  ELSE Max(0, years_in_business * 3))

scale_risk(revenue) ==
    Max(0, Min(1000, IF revenue < 500000 THEN 800
                     ELSE IF revenue < 1500000 THEN 650 - (revenue - 500000) \div 5000
                     ELSE IF revenue < 5000000 THEN 450 - (revenue - 1500000) \div 20000
                     ELSE 200))

leadership_risk(succession_indicators) == 10 * succession_indicators

digital_risk(domain_age) ==
    Max(0, Min(1000, IF domain_age # 0 THEN 600 - domain_age * 50 ELSE 700))

\* rating in tenths
performance_risk(rating, employees) == Max(0, 600 - rating * 12 - employees * 20)

\* the weights, in hundredths
RiskWeights == [age |-> 30, scale |-> 25, leadership |-> 20, digital |-> 15, performance |-> 10]

\* the weighted sum of sub-scores in tenths, in thousandths of a point
weighted_risk(age, scale, leadership, digital, performance) ==
    RiskWeights.age * age + RiskWeights.scale * scale + RiskWeights.leadership * leadership
        + RiskWeights.digital * digital + RiskWeights.performance * performance

\* `int(...)` of the weighted sum
succession_risk(age, scale, leadership, digital, performance) ==
    weighted_risk(age, scale, leadership, digital, performance) \div 1000

\* first_age and second_age are the domain ages of the handler's own call and of the
\* call inside _analyze_leadership_signals
calculate_business_succession_risk(business_data, first_age, second_age) ==
    LET domain_age == IF business_data.website # NoText THEN first_age ELSE 0
        age == age_risk(business_data.years_in_business)
        scale == scale_risk(business_data.estimated_revenue)
        leadership == leadership_risk(_analyze_leadership_signals(business_data.name,
                                                                  business_data.website,
                                                                  second_age))
        digital == digital_risk(domain_age)
        performance == performance_risk(business_data.rating, business_data.employee_count)
    IN [done |-> TRUE, age_risk |-> age, scale_risk |-> scale, leadership_risk |-> leadership,
        digital_risk |-> digital, performance_risk |-> performance,
        succession_risk_score |-> succession_risk(age, scale, leadership, digital,
                                                  performance)]

RiskBusinesses ==
    [name : RiskNames, website : RiskWebsites, years_in_business : RiskYears,
     estimated_revenue : RiskRevenues, employee_count : RiskEmployees, rating : RiskRatings]

NoRisk == [done |-> FALSE, age_risk |-> 0, scale_risk |-> 0, leadership_risk |-> 0,
           digital_risk |-> 0, performance_risk |-> 0, succession_risk_score |-> 0]

NoBusinessData == [name |-> NoText, website |-> NoText, years_in_business |-> 0,
                   estimated_revenue |-> 0, employee_count |-> 0, rating |-> 0]

RiskIdle == risk_input = NoBusinessData /\ risk_result = NoRisk

-----------------------------------------------------------------------------
(* intelligence_working_fixed.py comprehensive_market_scan: the normalization of the *)
(* discovered businesses and the market overview, with the analytics services loaded *)

Legal == <<"L","e","g","a","l">>

OverviewIndustries == {Legal, HVAC}

\* a discovered business: its reviews, its rating in tenths and its photos
SampleBusinesses == [reviews : {0, 50, 1000}, rating : {30, 45}, photos : {10}]

MaxSample == 2

\* values random.randint(2, 12) returns: the least, a middle one and the greatest
YearDraws == {2, 7, 12}

\* max(2, min(25, int(reviews / 8 + rating + draw))), the rating in tenths
drawn_years(reviews, rating, draw) ==
    Max(2, Min(25, (10 * reviews + 8 * rating + 80 * draw) \div 80))

\* the dict built for one business: the keys the market figures are about
normalized(biz, industry, draw) ==
    LET rating == biz.rating
        reviews == biz.reviews
        revenue_analysis ==
            calculate_revenue_estimate(
                reviews, biz.photos, industry,
                [rating |-> Number(rating),
                 years_in_business |-> Number(drawn_years(reviews, rating, draw)),
                 location_premium |-> Absent])
    IN [metrics |-> [rating |-> rating, review_count |-> reviews,
                     estimated_revenue |-> revenue_analysis.revenue_estimate]]

AssumedYears == 8

\* mathematical_analytics_service.py comprehensive_market_analysis: the revenue it
\* estimates for one of the dicts it was given
business_revenue(business, industry) ==
    calculate_revenue_estimate(
        Or(Get(business, "reviews", 0), Get(business, "review_count", 0)),
        Or(Get(business, "photos", 0), Len(Get(business, "photos_urls", <<>>))),
        industry,
        [rating |-> Number(Get(business, "rating", DefaultRating)),
         years_in_business |-> Number(Get(business, "years_in_business", AssumedYears)),
         location_premium |-> Absent]).revenue_estimate

\* `business['estimated_revenue'] = business_revenue`
with_revenue(business, industry) ==
    ("estimated_revenue" :> business_revenue(business, industry)) @@ business

comprehensive_market_analysis(businesses, industry) ==
    LET businesses_with_revenue ==
            [i \in DOMAIN businesses |-> with_revenue(businesses[i], industry)]
        total_revenue ==
            SumSeq([i \in DOMAIN businesses |-> businesses_with_revenue[i].estimated_revenue])
    IN [businesses |-> businesses_with_revenue,
        total_businesses |-> Len(businesses),
        total_market_value |-> total_revenue,
        market_concentration |-> calculate_hhi_index(businesses_with_revenue, "revenue")]

NoOverview == [done |-> FALSE, industry |-> NoText, businesses |-> <<>>,
               total_businesses |-> 0, total_market_value |-> 0,
               market_concentration |-> NoResult]

OverviewIdle == sample_businesses = <<>> /\ overview = NoOverview

\* the orders in which the results of the two adapters can be combined
AdapterOrders == {"google_first", "yelp_first"}

NotRun == [done |-> FALSE, businesses |-> <<>>]

NoLists == [google_maps |-> <<>>, yelp |-> <<>>]

OrderIdle ==
    /\ adapter_lists = NoLists
    /\ merged_in_order = [o \in AdapterOrders |-> NotRun]
    /\ discovered_in_order = [o \in AdapterOrders |-> NotRun]

FilterIdle == filter_input = [name |-> NoText, industry |-> NoText] /\ verdict = NoVerdict

-----------------------------------------------------------------------------
(* Deduplication of a collected list *)

InitDedup ==
    /\ collected = <<>>
    /\ all_businesses = <<>>
    /\ pipeline = "collect"
    /\ runs = <<>>
    /\ deduped = <<>>
    /\ unique_businesses = <<>>
    /\ ScanIdle
    /\ AnalyticsIdle
    /\ RevenueIdle /\ DensityIdle /\ FilterIdle /\ OrderIdle /\ RiskIdle /\ OverviewIdle

\* one directory result is returned by its adapter and appended to the list
Collect ==
    /\ pipeline = "collect"
    /\ Len(collected) < MaxRecords
    /\ \E item \in DirectoryResults :
          /\ collected' = Append(collected, item)
          /\ all_businesses' = Append(all_businesses, AdapterBusiness(item))
    /\ UNCHANGED <<pipeline, runs, deduped, unique_businesses, scanVars, hhiVars, calcVars, filterVars, orderVars, riskVars, overviewVars>>

\* intelligence.py: aggregate_business_data(all_businesses), called again on the
\* same list object
Aggregate ==
    /\ pipeline \in {"collect", "aggregate"}
    /\ Len(runs) < MaxRuns
    /\ pipeline' = "aggregate"
    /\ runs' = Append(runs, aggregate_business_data(all_businesses))
    /\ all_businesses' = businesses_after_aggregate(all_businesses)
    /\ UNCHANGED <<collected, deduped, unique_businesses, scanVars, hhiVars, calcVars, filterVars, orderVars, riskVars, overviewVars>>

\* the forked scan over the same directory results: normalise the items, merge the
\* groups, sort
ForkMerge ==
    /\ pipeline \in {"collect", "aggregate"}
    /\ Len(SelectSeq(collected, ForkAccepts)) > 0
    /\ pipeline' = "fork"
    /\ \E first_site \in {website_val(SiteJoes), website_val(SiteYelpJoes)},
          first_phone \in {PhoneJoes, PhoneOther} :
          deduped' = fork_deduped(FromItems(SelectSeq(collected, ForkAccepts), ForkBusiness),
                                  first_site, first_phone)
    /\ UNCHANGED <<collected, all_businesses, runs, unique_businesses, scanVars, hhiVars, calcVars, filterVars, orderVars, riskVars, overviewVars>>

\* FragmentFinderService._get_all_businesses: collect, then deduplicate
FragmentDeduplicate ==
    /\ pipeline = "collect"
    /\ pipeline' = "fragment"
    /\ unique_businesses' =
          _deduplicate_businesses(FromItems(collected, FragmentBusiness), Len(collected))
    /\ UNCHANGED <<collected, all_businesses, runs, deduped, scanVars, hhiVars, calcVars, filterVars, orderVars, riskVars, overviewVars>>

NextDedup == Collect \/ Aggregate \/ ForkMerge \/ FragmentDeduplicate

SpecDedup == InitDedup /\ [][NextDedup]_vars

-----------------------------------------------------------------------------
(* Serving a scan request *)

DedupIdle ==
    /\ collected = <<>>
    /\ all_businesses = <<>>
    /\ pipeline = "collect"
    /\ runs = <<>>
    /\ deduped = <<>>
    /\ unique_businesses = <<>>

InitScan == DedupIdle /\ ScanIdle /\ AnalyticsIdle /\ RevenueIdle /\ DensityIdle /\ FilterIdle /\ OrderIdle /\ RiskIdle /\ OverviewIdle

\* intelligence.py comprehensive_market_scan, up to the gather: one adapter coroutine
\* per requested source
MarketScan ==
    /\ route = "idle"
    /\ \E req \in ScanRequests, dir \in Directories :
          /\ request' = req
          /\ directory' = dir
          /\ tasks' = (IF "google_maps" \in req.crawl_sources
                       THEN <<NewTask("google_maps", 0)>> ELSE <<>>)
                      \o (IF "yelp" \in req.crawl_sources
                          THEN <<NewTask("yelp", 0)>> ELSE <<>>)
    /\ route' = "scan"
    /\ UNCHANGED <<aggregate_input, response, dedupVars, hhiVars, calcVars, filterVars, orderVars, riskVars, overviewVars>>

\* search_google_maps_places / search_yelp_businesses: the next result is turned into
\* a business and appended when the relevance filter keeps it
SearchStep(t) ==
    /\ route = "scan"
    /\ tasks[t].status = "running"
    /\ tasks[t].cursor < Len(ScanResults(tasks[t]))
    /\ LET business == AdapterBusiness(ScanResults(tasks[t])[tasks[t].cursor + 1])
       IN tasks' = [tasks EXCEPT ![t].cursor = @ + 1,
                                 ![t].businesses =
                                     IF AdapterKeeps(business, request.industry)
                                     THEN Append(@, business) ELSE @]
    /\ UNCHANGED <<route, request, directory, aggregate_input, response, dedupVars, hhiVars, calcVars, filterVars, orderVars, riskVars, overviewVars>>

\* a request of the adapter raises or times out: `except Exception` logs it and the
\* adapter returns the businesses it has appended so far
SearchFails(t) ==
    /\ route = "scan"
    /\ tasks[t].status = "running"
    /\ tasks' = [tasks EXCEPT ![t].status = "returned", ![t].failed = TRUE]
    /\ UNCHANGED <<route, request, directory, aggregate_input, response, dedupVars, hhiVars, calcVars, filterVars, orderVars, riskVars, overviewVars>>

\* the adapter has gone through its results and returns
SearchReturns(t) ==
    /\ route = "scan"
    /\ tasks[t].status = "running"
    /\ tasks[t].cursor = Len(ScanResults(tasks[t]))
    /\ tasks' = [tasks EXCEPT ![t].status = "returned"]
    /\ UNCHANGED <<route, request, directory, aggregate_input, response, dedupVars, hhiVars, calcVars, filterVars, orderVars, riskVars, overviewVars>>

\* comprehensive_market_scan after the gather: extend, aggregate, cut, enrich, return
ScanResponds ==
    /\ route = "scan"
    /\ response = NoResponse
    /\ AllReturned
    /\ aggregate_input' = gathered(tasks, Len(tasks))
    /\ \E extracted \in {NoText, EmailJoes} :
          LET aggregated_businesses == aggregate_business_data(gathered(tasks, Len(tasks)))
              final_businesses == Prefix(aggregated_businesses, request.max_businesses)
              enriched == [i \in DOMAIN final_businesses |->
                              enrich_business_data(final_businesses[i], extracted)]
          IN response' = [status_code |-> 200, success |-> TRUE,
                          businesses |-> enriched, total_found |-> Len(enriched)]
    /\ UNCHANGED <<route, request, directory, tasks, dedupVars, hhiVars, calcVars, filterVars, orderVars, riskVars, overviewVars>>

\* intelligence_working_fixed.py comprehensive_market_scan: discover_businesses creates
\* its tasks and gathers them; a discovery adapter that raises returns []. The tasks
\* share no state, so one step chooses which of them fail.
FixedScan ==
    /\ route = "idle"
    /\ route' = "fixed_scan"
    /\ \E req \in FixedScanRequests, dir \in Directories, keys \in KeyConfigurations :
          LET created == discovery_tasks(keys, req.location, req.industry)
          IN \E failing \in {S \in SUBSET DOMAIN created : Cardinality(S) <= MaxFailing} :
                /\ request' = req
                /\ directory' = dir
                /\ tasks' = [k \in DOMAIN created |->
                                [created[k] EXCEPT
                                    !.status = "returned",
                                    !.failed = (k \in failing),
                                    !.businesses =
                                        IF k \in failing THEN <<>>
                                        ELSE discovered(dir, created[k].adapter,
                                                        task_limit(created[k], req))]]
    /\ UNCHANGED <<aggregate_input, response, dedupVars, hhiVars, calcVars, filterVars, orderVars, riskVars, overviewVars>>

\* the rest of the handler: the results are deduplicated and filled up by
\* discover_businesses and returned
FixedScanResponds ==
    /\ route = "fixed_scan"
    /\ response = NoResponse
    /\ aggregate_input' = gathered(tasks, Len(tasks))
    /\ LET businesses == discover_businesses(gathered(tasks, Len(tasks)),
                                             request.location, discovery_limit(request))
       IN response' = [status_code |-> 200, success |-> TRUE,
                       businesses |-> businesses, total_found |-> Len(businesses)]
    /\ UNCHANGED <<route, request, directory, tasks, dedupVars, hhiVars, calcVars, filterVars, orderVars, riskVars, overviewVars>>

\* fragment_finder.py analyze_market_fragmentation: _get_all_businesses first awaits
\* the Google adapter
Analyze ==
    /\ route = "idle"
    /\ route' = "analyze"
    /\ \E req \in FragmentRequests, dir \in Directories :
          /\ request' = req
          /\ directory' = dir
    /\ tasks' = <<NewTask("google_maps", 0)>>
    /\ UNCHANGED <<aggregate_input, response, dedupVars, hhiVars, calcVars, filterVars, orderVars, riskVars, overviewVars>>

\* when the Google adapter has returned, _get_all_businesses awaits the Yelp adapter
ThenYelp(ts) ==
    IF Len(ts) = 1 THEN Append(ts, NewTask("yelp", 0)) ELSE ts

\* _get_google_businesses / _get_yelp_businesses: the next result becomes a BusinessData
CollectStep(t) ==
    /\ route = "analyze"
    /\ tasks[t].status = "running"
    /\ tasks[t].cursor < Len(FragmentResults(tasks[t]))
    /\ tasks' = [tasks EXCEPT
                    ![t].cursor = @ + 1,
                    ![t].businesses =
                        Append(@, FragmentBusiness(FragmentResults(tasks[t])[tasks[t].cursor + 1]))]
    /\ UNCHANGED <<route, request, directory, aggregate_input, response, dedupVars, hhiVars, calcVars, filterVars, orderVars, riskVars, overviewVars>>

\* the adapter's `except Exception`: the businesses built so far are returned
CollectFails(t) ==
    /\ route = "analyze"
    /\ tasks[t].status = "running"
    /\ tasks' = ThenYelp([tasks EXCEPT ![t].status = "returned", ![t].failed = TRUE])
    /\ UNCHANGED <<route, request, directory, aggregate_input, response, dedupVars, hhiVars, calcVars, filterVars, orderVars, riskVars, overviewVars>>

CollectReturns(t) ==
    /\ route = "analyze"
    /\ tasks[t].status = "running"
    /\ tasks[t].cursor = Len(FragmentResults(tasks[t]))
    /\ tasks' = ThenYelp([tasks EXCEPT ![t].status = "returned"])
    /\ UNCHANGED <<route, request, directory, aggregate_input, response, dedupVars, hhiVars, calcVars, filterVars, orderVars, riskVars, overviewVars>>

NotFound == 404
ServerError == 500

\* the status the router answers with when the service result has success=False: the
\* HTTPException(404) is raised inside the router's own `try`, whose `except Exception`
\* turns it into HTTPException(500)
unsuccessful_status(raised) == IF raised = NotFound THEN ServerError ELSE raised

\* the service result and the router's answer to it
AnalyzeResponds ==
    /\ route = "analyze"
    /\ response = NoResponse
    /\ Len(tasks) = 2
    /\ AllReturned
    /\ aggregate_input' = gathered(tasks, Len(tasks))
    /\ LET businesses == _deduplicate_businesses(gathered(tasks, Len(tasks)),
                                                 Len(gathered(tasks, Len(tasks))))
       IN response' = IF businesses = <<>>
                      THEN [status_code |-> unsuccessful_status(NotFound), success |-> FALSE,
                            businesses |-> <<>>, total_found |-> 0]
                      ELSE [status_code |-> 200, success |-> TRUE,
                            businesses |-> businesses, total_found |-> Len(businesses)]
    /\ UNCHANGED <<route, request, directory, tasks, dedupVars, hhiVars, calcVars, filterVars, orderVars, riskVars, overviewVars>>

NextScan ==
    \/ MarketScan
    \/ \E t \in DOMAIN tasks : SearchStep(t)
    \/ \E t \in DOMAIN tasks : SearchFails(t)
    \/ \E t \in DOMAIN tasks : SearchReturns(t)
    \/ ScanResponds
    \/ FixedScan
    \/ FixedScanResponds
    \/ Analyze
    \/ \E t \in DOMAIN tasks : CollectStep(t)
    \/ \E t \in DOMAIN tasks : CollectFails(t)
    \/ \E t \in DOMAIN tasks : CollectReturns(t)
    \/ AnalyzeResponds

SpecScan == InitScan /\ [][NextScan]_vars

-----------------------------------------------------------------------------
(* Computing the concentration of a business list *)

InitHHI ==
    /\ DedupIdle
    /\ ScanIdle
    /\ RevenueIdle /\ DensityIdle /\ FilterIdle /\ OrderIdle /\ RiskIdle /\ OverviewIdle
    /\ hhi_businesses \in {<<>>, DominatedMarket} \cup {EvenMarket(n) : n \in EvenMarketSizes}
    /\ hhi_phase = "input"
    /\ hhi_proxy = "none"
    /\ hhi_result = NoResult
    /\ hhi_index = [num |-> 0, den |-> 1]

\* one more business in the list to analyse
AddBusiness ==
    /\ hhi_phase = "input"
    /\ Len(hhi_businesses) < MaxAnalysed
    /\ \E business \in AnalyticsBusinesses : hhi_businesses' = Append(hhi_businesses, business)
    /\ UNCHANGED <<hhi_phase, hhi_proxy, hhi_result, hhi_index, dedupVars, scanVars, calcVars, filterVars, orderVars, riskVars, overviewVars>>

\* MathematicalAnalyticsService.calculate_hhi_index(businesses, hhi_proxy)
CalculateHHI ==
    /\ hhi_phase = "input"
    /\ hhi_phase' = "done"
    /\ \E proxy \in MarketShareProxies :
          /\ hhi_proxy' = proxy
          /\ hhi_result' = calculate_hhi_index(hhi_businesses, proxy)
    /\ UNCHANGED <<hhi_businesses, hhi_index, dedupVars, scanVars, calcVars, filterVars, orderVars, riskVars, overviewVars>>

\* FragmentFinderService._calculate_hhi(businesses), with the analytics service loaded
FragmentCalculateHHI ==
    /\ hhi_phase = "input"
    /\ hhi_phase' = "done"
    /\ hhi_proxy' = "reviews_weighted"
    /\ hhi_result' =
          calculate_hhi_index([i \in DOMAIN hhi_businesses |-> business_dict(hhi_businesses[i])],
                              "reviews_weighted")
    /\ hhi_index' = _calculate_hhi(hhi_businesses, TRUE)
    /\ UNCHANGED <<hhi_businesses, dedupVars, scanVars, calcVars, filterVars, orderVars, riskVars, overviewVars>>

\* the same when the analytics service could not be loaded: the legacy calculation
FragmentLegacyHHI ==
    /\ hhi_phase = "input"
    /\ hhi_phase' = "done"
    /\ hhi_proxy' = "legacy"
    /\ hhi_index' = _calculate_hhi(hhi_businesses, FALSE)
    /\ UNCHANGED <<hhi_businesses, hhi_result, dedupVars, scanVars, calcVars, filterVars, orderVars, riskVars, overviewVars>>

\* RealDataMarketAnalytics.calculate_business_specific_hhi: the business is appended
\* to the competitors that were fetched and the index is computed over the list
BusinessSpecificHHI ==
    /\ hhi_phase = "input"
    /\ hhi_phase' = "done"
    /\ hhi_proxy' = "business_specific"
    /\ \E business_data \in AnalyticsBusinesses :
          /\ hhi_businesses' = Append(hhi_businesses, business_data)
          /\ hhi_result' = calculate_business_specific_hhi(Append(hhi_businesses, business_data))
    /\ UNCHANGED <<hhi_index, dedupVars, scanVars, calcVars, filterVars, orderVars, riskVars, overviewVars>>

NextHHI ==
    \/ AddBusiness
    \/ CalculateHHI
    \/ FragmentCalculateHHI
    \/ FragmentLegacyHHI
    \/ BusinessSpecificHHI

SpecHHI == InitHHI /\ [][NextHHI]_vars

-----------------------------------------------------------------------------
(* Revenue estimates: a business is estimated, then estimated again after its review *)
(* count changed                                                                      *)

InitRevenue == DedupIdle /\ ScanIdle /\ AnalyticsIdle /\ RevenueIdle /\ DensityIdle /\ FilterIdle /\ OrderIdle /\ RiskIdle /\ OverviewIdle

\* MathematicalAnalyticsService.calculate_revenue_estimate
EstimateRevenue ==
    /\ Len(revenue_calls) < MaxEstimates
    /\ \E review_count \in ReviewCounts, picture_count \in PictureCounts,
          industry \in {NoText, HVAC, RealEstate}, additional_factors \in AdditionalFactors :
          /\ revenue_calls # <<>> =>
                /\ picture_count = revenue_calls[1].picture_count
                /\ industry = revenue_calls[1].industry
                /\ additional_factors = revenue_calls[1].additional_factors
          /\ revenue_calls' =
                Append(revenue_calls,
                       [review_count |-> review_count, picture_count |-> picture_count,
                        industry |-> industry, additional_factors |-> additional_factors,
                        result |-> calculate_revenue_estimate(review_count, picture_count,
                                                              industry, additional_factors)])
    /\ UNCHANGED <<population_cache, density_calls, dedupVars, scanVars, hhiVars, filterVars, orderVars, riskVars, overviewVars>>

NextRevenue == EstimateRevenue

SpecRevenue == InitRevenue /\ [][NextRevenue]_vars

-----------------------------------------------------------------------------
(* Density requests served by the analytics calculators *)

InitDensity == DedupIdle /\ ScanIdle /\ AnalyticsIdle /\ RevenueIdle /\ DensityIdle /\ FilterIdle /\ OrderIdle /\ RiskIdle /\ OverviewIdle

\* MathematicalAnalyticsService(): intelligence_working_fixed.py constructs one in
\* every comprehensive_market_scan; the fragment finder keeps the one of its __init__
NewService ==
    /\ population_cache.service < MaxServices
    /\ population_cache' = [service |-> population_cache.service + 1, entries |-> <<>>]
    /\ UNCHANGED <<density_calls, revenue_calls, dedupVars, scanVars, hhiVars, filterVars, orderVars, riskVars, overviewVars>>

\* one request's calculate_business_density call on the current calculator
BusinessDensity ==
    /\ Len(density_calls) < MaxDensityCalls
    /\ \E location \in DensityLocations, businesses_count \in BusinessCounts,
          use_households \in BOOLEAN, estimate \in CensusEstimates :
          LET census_data == _fetch_census_acs_data(population_cache.entries, location,
                                                    estimate)
              cache_hit == lower(location) \in DOMAIN population_cache.entries
          IN /\ population_cache' =
                    [population_cache EXCEPT
                        !.entries = IF cache_hit THEN @
                                    ELSE (lower(location) :> census_data) @@ @]
             /\ density_calls' =
                    Append(density_calls,
                           [service |-> population_cache.service, location |-> location,
                            businesses_count |-> businesses_count,
                            use_households |-> use_households, cache_hit |-> cache_hit,
                            result |-> calculate_business_density(census_data,
                                                                  businesses_count,
                                                                  use_households)])
    /\ UNCHANGED <<revenue_calls, dedupVars, scanVars, hhiVars, filterVars, orderVars, riskVars, overviewVars>>

NextDensity == NewService \/ BusinessDensity

SpecDensity == InitDensity /\ [][NextDensity]_vars

-----------------------------------------------------------------------------
(* The relevance filters applied to one candidate name *)

InitFilter ==
    /\ DedupIdle /\ ScanIdle /\ AnalyticsIdle /\ RevenueIdle /\ DensityIdle /\ OrderIdle /\ RiskIdle /\ OverviewIdle
    /\ filter_input \in [name : CandidateNames, industry : CandidateIndustries]
    /\ verdict = NoVerdict

\* intelligence.py: _is_relevant_business(name, industry)
RelevanceFilter ==
    /\ verdict.intelligence = "none"
    /\ verdict' = [verdict EXCEPT
                      !.intelligence =
                          Answer(_is_relevant_business(filter_input.name, filter_input.industry))]
    /\ UNCHANGED <<filter_input, dedupVars, scanVars, hhiVars, calcVars, orderVars, riskVars, overviewVars>>

\* intelligence_working_fixed.py: _is_relevant_business(name, industry)
FixedRelevanceFilter ==
    /\ verdict.fixed = "none"
    /\ verdict' = [verdict EXCEPT
                      !.fixed =
                          Answer(_is_relevant_business_fixed(filter_input.name,
                                                             filter_input.industry))]
    /\ UNCHANGED <<filter_input, dedupVars, scanVars, hhiVars, calcVars, orderVars, riskVars, overviewVars>>

NextFilter == RelevanceFilter \/ FixedRelevanceFilter

SpecFilter == InitFilter /\ [][NextFilter]_vars

-----------------------------------------------------------------------------
(* intelligence.py / enhanced_business_discovery.py: the results of the adapters, *)
(* combined in either order                                                      *)

\* the lists of at most n results of one directory
ResultLists(source, n) ==
    UNION {[1..k -> {d \in DirectoryResults : d.source = source}] : k \in 0..n}

\* `for result in results: all_businesses.extend(result)`, for either order of results
extended(google, yelp, order) ==
    IF order = "google_first" THEN google \o yelp ELSE yelp \o google

InitOrder ==
    /\ DedupIdle /\ ScanIdle /\ AnalyticsIdle /\ RevenueIdle /\ DensityIdle /\ FilterIdle
    /\ RiskIdle /\ OverviewIdle
    /\ adapter_lists \in [google_maps : ResultLists("google_maps", MaxResults),
                          yelp : ResultLists("yelp", MaxResults)]
    /\ merged_in_order = [o \in AdapterOrders |-> NotRun]
    /\ discovered_in_order = [o \in AdapterOrders |-> NotRun]

\* comprehensive_market_scan: the gathered results are extended into all_businesses
\* and aggregated
AggregateInOrder ==
    /\ \E order \in AdapterOrders :
          /\ ~merged_in_order[order].done
          /\ merged_in_order' =
                [merged_in_order EXCEPT
                    ![order] = [done |-> TRUE,
                                businesses |->
                                    aggregate_business_data(
                                        extended(FromItems(adapter_lists.google_maps, AdapterBusiness),
                                                 FromItems(adapter_lists.yelp, AdapterBusiness),
                                                 order))]]
    /\ UNCHANGED <<adapter_lists, discovered_in_order, dedupVars, scanVars, hhiVars, calcVars, filterVars, riskVars, overviewVars>>

\* discover_businesses: the gathered results are gone through in order and the first
\* business of every name is kept
DiscoverInOrder ==
    /\ \E order \in AdapterOrders :
          /\ ~discovered_in_order[order].done
          /\ LET results ==
                    extended(discovered(adapter_lists, "google_maps",
                                        Len(adapter_lists.google_maps)),
                             discovered(adapter_lists, "yelp", Len(adapter_lists.yelp)),
                             order)
             IN discovered_in_order' =
                    [discovered_in_order EXCEPT
                        ![order] = [done |-> TRUE,
                                    businesses |-> unique_by_name(<<>>, results, Len(results))]]
    /\ UNCHANGED <<adapter_lists, merged_in_order, dedupVars, scanVars, hhiVars, calcVars, filterVars, riskVars, overviewVars>>

NextOrder == AggregateInOrder \/ DiscoverInOrder

SpecOrder == InitOrder /\ [][NextOrder]_vars

-----------------------------------------------------------------------------
(* Succession risk of one business *)

InitRisk ==
    /\ DedupIdle /\ ScanIdle /\ AnalyticsIdle /\ RevenueIdle /\ DensityIdle /\ FilterIdle
    /\ OrderIdle /\ OverviewIdle
    /\ risk_input \in RiskBusinesses
    /\ risk_result = NoRisk

\* RealDataMarketAnalytics.calculate_business_succession_risk: the domain age is
\* computed twice, each time with its own random term
CalculateSuccessionRisk ==
    /\ ~risk_result.done
    /\ \E first_jitter \in AgeJitter, second_jitter \in AgeJitter :
          risk_result' =
              calculate_business_succession_risk(
                  risk_input,
                  _get_domain_registration_age(risk_input.website, first_jitter),
                  _get_domain_registration_age(risk_input.website, second_jitter))
    /\ UNCHANGED <<risk_input, dedupVars, scanVars, hhiVars, calcVars, filterVars, orderVars,
                   overviewVars>>

NextRisk == CalculateSuccessionRisk

SpecRisk == InitRisk /\ [][NextRisk]_vars

-----------------------------------------------------------------------------
(* The market overview of a forked scan *)

InitOverview ==
    /\ DedupIdle /\ ScanIdle /\ AnalyticsIdle /\ RevenueIdle /\ DensityIdle /\ FilterIdle
    /\ OrderIdle /\ RiskIdle
    /\ sample_businesses \in UNION {[1..n -> SampleBusinesses] : n \in 0..MaxSample}
    /\ overview = NoOverview

\* comprehensive_market_scan from the normalization on: every business is normalized,
\* the list is analysed when it is not empty, and the response is built. The dicts of
\* the response are the ones comprehensive_market_analysis wrote into
MarketOverview ==
    /\ ~overview.done
    /\ \E industry \in OverviewIndustries, draws \in [DOMAIN sample_businesses -> YearDraws] :
          LET businesses == [i \in DOMAIN sample_businesses |->
                                normalized(sample_businesses[i], industry, draws[i])]
              market_intelligence == comprehensive_market_analysis(businesses, industry)
          IN overview' =
                IF businesses = <<>>
                THEN [NoOverview EXCEPT !.done = TRUE, !.industry = industry]
                ELSE [done |-> TRUE, industry |-> industry,
                      businesses |-> market_intelligence.businesses,
                      total_businesses |-> market_intelligence.total_businesses,
                      total_market_value |-> market_intelligence.total_market_value,
                      market_concentration |-> market_intelligence.market_concentration]
    /\ UNCHANGED <<sample_businesses, dedupVars, scanVars, hhiVars, calcVars, filterVars,
                   orderVars, riskVars>>

NextOverview == MarketOverview

SpecOverview == InitOverview /\ [][NextOverview]_vars

-----------------------------------------------------------------------------
(* Properties of the deduplicators *)

\* the list aggregate_business_data was first given: the adapters' records
normalized_records == FromItems(collected, AdapterBusiness)

\* the positions of the collected records that carry the grouping key of m
GroupOf(m) ==
    {i \in DOMAIN collected :
        HasName(collected[i]) /\ GroupKey(collected[i]) = GroupKey(m)}

MergedView(m) ==
    [key |-> GroupKey(m), website |-> m.website, phone |-> m.phone, email |-> m.email,
     rating |-> m.rating, review_count |-> m.review_count,
     data_sources |-> m.data_sources, source_count |-> m.source_count]

MergedSet(run) == {MergedView(run[k]) : k \in DOMAIN run}

\* C1: calling aggregate_business_data again on the same list yields the same set of
\* merged businesses: the same keys, one record per key, and the same website, phone,
\* email, rating, review_count, data_sources (as a set) and source_count.
C1_AggregateIdempotent ==
    \A i, j \in DOMAIN runs :
        /\ MergedSet(runs[i]) = MergedSet(runs[j])
        /\ Len(runs[i]) = Len(runs[j])
        /\ Cardinality(MergedSet(runs[i])) = Len(runs[i])

\* two calls were made on a list whose first call filled fields of a base record
C1_Witness ==
    /\ Len(runs) = MaxRuns
    /\ all_businesses # normalized_records
    /\ \E k \in DOMAIN runs[1] : Cardinality(GroupOf(runs[1][k])) >= 2

NoSharedKey(list) ==
    \A i, j \in DOMAIN list : i # j => GroupKey(list[i]) # GroupKey(list[j])

RepresentedOnce(list) ==
    \A i \in DOMAIN collected :
        HasName(collected[i]) =>
            Cardinality({k \in DOMAIN list : GroupKey(list[k]) = GroupKey(collected[i])}) = 1

AggregateKeysUnique ==
    \A r \in DOMAIN runs : NoSharedKey(runs[r]) /\ RepresentedOnce(runs[r])

FragmentKeysUnique ==
    pipeline = "fragment" =>
        NoSharedKey(unique_businesses) /\ RepresentedOnce(unique_businesses)

\* C2: after deduplication no two businesses of the result have the same normalized-name
\* key, and every collected record with a non-empty name is represented by exactly one
\* business of the result; stated for aggregate_business_data and for
\* FragmentFinderService._deduplicate_businesses.
C2_NormalizedKeysUnique == AggregateKeysUnique /\ FragmentKeysUnique

ForkGroupOf(m) ==
    {i \in DOMAIN collected :
        ForkAccepts(collected[i])
        /\ normalized_key(strip(collected[i].name)) = normalized_key(m.name)}

SourcesAreUnion(m, group) ==
    /\ m.data_sources # {}
    /\ m.data_sources = {collected[i].source : i \in group}
    /\ m.source_count = Cardinality({collected[i].source : i \in group})

\* C3: every merged business has a non-empty data_sources, equal to the union of the
\* source tags of the records of its group, and source_count is the number of distinct
\* tags; stated for aggregate_business_data and for the forked scan's merge.
C3_SourcesAreGroupUnion ==
    /\ \A r \in DOMAIN runs : \A k \in DOMAIN runs[r] :
          SourcesAreUnion(runs[r][k], GroupOf(runs[r][k]))
    /\ \A k \in DOMAIN deduped : SourcesAreUnion(deduped[k], ForkGroupOf(deduped[k]))

\* both merges have produced a business seen by two sources
C3_Witness ==
    /\ Len(runs) > 0
    /\ \E k \in DOMAIN runs[1] : runs[1][k].source_count = 2
    /\ \E k \in DOMAIN deduped : deduped[k].source_count = 2

ContactFields == {"website", "phone", "email"}

\* C4: every non-empty website, phone and email of a merged business is the value of
\* that field in at least one record of its group.
C4_ContactFromGroup ==
    \A r \in DOMAIN runs : \A k \in DOMAIN runs[r] : \A f \in ContactFields :
        runs[r][k][f] # NoText =>
            \E i \in GroupOf(runs[r][k]) : normalized_records[i][f] = runs[r][k][f]

\* a merged business has a phone that its base record did not have
C4_Witness ==
    /\ Len(runs) > 0
    /\ \E k \in DOMAIN runs[1] :
          /\ runs[1][k].phone # NoText
          /\ \E i \in GroupOf(runs[1][k]) :
                /\ normalized_records[i].website = runs[1][k].website
                /\ normalized_records[i].website # NoText
                /\ normalized_records[i].phone = NoText

ScenarioCollected ==
    /\ Len(collected) = 2
    /\ Range(collected) = {Named(JoesHvacA, ProfileA), Named(JoesHvacB, ProfileB)}

ScenarioMerged(list) ==
    /\ Len(list) = 1
    /\ list[1].source_count = 2
    /\ list[1].rating = 45
    /\ list[1].website = HttpsPrefix \o SiteJoes
    /\ list[1].phone = PhoneJoes

\* C5: 'Joe's HVAC' from one source (rating 4.5, 80 reviews, no website or phone) and
\* 'Joes Hvac' from another (website joeshvac.com, phone 217-555-0100) are normalised
\* and merged into exactly one business with source_count 2, rating 4.5, website
\* https://joeshvac.com and phone 217-555-0100.
C5_JoesHvacScenario ==
    ScenarioCollected =>
        /\ \A r \in DOMAIN runs : ScenarioMerged(runs[r])
        /\ pipeline = "fork" => ScenarioMerged(deduped)

\* the same scenario through the forked scan alone
C5_ForkScenario == ScenarioCollected /\ pipeline = "fork" => ScenarioMerged(deduped)

-----------------------------------------------------------------------------
(* Properties of the scan endpoints *)

Responded == response # NoResponse

SomeTaskFailed == \E t \in DOMAIN tasks : tasks[t].failed

\* the results task t would have gone through had it not failed
ResultsOf(t) ==
    IF route = "scan" THEN ScanResults(tasks[t])
    ELSE discovered(directory, tasks[t].adapter, task_limit(tasks[t], request))

\* a task that did not fail went through all of its results
RanToCompletion(t) ==
    IF route = "scan" THEN tasks[t].cursor = Len(ResultsOf(t))
    ELSE tasks[t].businesses = ResultsOf(t)

FailureIsolated ==
    /\ response.success
    /\ \A t \in DOMAIN tasks : tasks[t].failed => tasks[t].businesses = <<>>
    /\ \A t \in DOMAIN tasks :
          ~tasks[t].failed =>
              /\ RanToCompletion(t)
              /\ Range(tasks[t].businesses) \subseteq Range(aggregate_input)

\* the same for the discovery adapters of enhanced_business_discovery.py alone
DiscoveryFailureIsolated ==
    Responded /\ route = "fixed_scan" /\ SomeTaskFailed => FailureIsolated

\* C6: when an adapter raises or times out during a scan, the scan still answers
\* successfully, the failing adapter contributes zero records, every record the other
\* adapters returned is handed to the deduplicator, and no other adapter call is cut
\* short; stated for intelligence.py's scan and for discover_businesses.
C6_AdapterFailureIsolated ==
    Responded /\ route \in {"scan", "fixed_scan"} /\ SomeTaskFailed => FailureIsolated

NoRecords == \A t \in DOMAIN tasks : tasks[t].businesses = <<>>

EmptySuccess ==
    /\ response.success
    /\ response.status_code = 200
    /\ response.businesses = <<>>
    /\ response.total_found = 0

\* the same for intelligence.py's scan alone
ScanEmptyIsSuccess == Responded /\ route = "scan" /\ NoRecords => EmptySuccess

\* C7: when every adapter returns no records, or the relevance filter rejects every
\* record, the request ends as a successful response with an empty business list and
\* total_found = 0, not as an error; stated for intelligence.py's scan and for the
\* fragment finder endpoint.
C7_NoRecordsIsEmptySuccess ==
    Responded /\ route \in {"scan", "analyze"} /\ NoRecords => EmptySuccess

\* C8: a request whose location is empty is rejected before any adapter is invoked: no
\* adapter call is ever made for it and it gets no successful response; stated for the
\* scans of intelligence.py and intelligence_working_fixed.py.
C8_EmptyLocationRejected ==
    route \in {"scan", "fixed_scan"} /\ request.location = NoText =>
        /\ tasks = <<>>
        /\ ~response.success

-----------------------------------------------------------------------------
(* Properties of the concentration index *)

Calculated == hhi_phase = "done" /\ hhi_proxy \in MarketShareProxies

InRange(x, low, high) == low * x.den <= x.num /\ x.num <= high * x.den

\* C9: for a non-empty business list with non-negative revenues and review counts, and
\* for every proxy, the hhi_score of calculate_hhi_index lies between 0 and 10000; so
\* does the value _calculate_hhi gets from it (and rescales to 0..1).
C9_HHIWithinBounds ==
    hhi_phase = "done" /\ hhi_businesses # <<>> =>
        /\ hhi_proxy # "legacy" => InRange(hhi_result.hhi_score, 0, HHIScale)
        /\ InRange(hhi_index, 0, 1)

\* an index strictly between the bounds has been computed for businesses of unequal size
C9_Witness ==
    /\ Calculated
    /\ Len(hhi_businesses) >= 2
    /\ 0 < hhi_result.hhi_score.num
    /\ hhi_result.hhi_score.num < HHIScale * hhi_result.hhi_score.den

\* the market-share value the proxy gives one business
ShareValue(business, proxy) ==
    CASE proxy = "revenue" -> business.estimated_revenue
      [] proxy = "reviews_weighted" -> weighted_share(business)
      [] proxy = "chain_independent" -> market_value(business)
      [] OTHER -> 1

AllSameValue ==
    \A i, j \in DOMAIN hhi_businesses :
        ShareValue(hhi_businesses[i], hhi_proxy)
            = ShareValue(hhi_businesses[j], hhi_proxy)

\* C10: for N >= 1 businesses that all have the same market-share value,
\* calculate_hhi_index returns hhi_score = 10000 / N; a single business always gives
\* 10000, whatever its value, zero included.
C10_EqualSharesGiveScaleOverN ==
    Calculated /\ hhi_businesses # <<>> /\ AllSameValue =>
        hhi_result.hhi_score.num * Len(hhi_businesses)
            = HHIScale * hhi_result.hhi_score.den

\* a single business whose value is zero, and several businesses of one positive value
C10_Witness ==
    /\ Calculated
    /\ hhi_businesses # <<>>
    /\ AllSameValue
    /\ \/ Len(hhi_businesses) = 1 /\ ShareValue(hhi_businesses[1], hhi_proxy) = 0
       \/ Len(hhi_businesses) >= 2 /\ ShareValue(hhi_businesses[1], hhi_proxy) > 0

-----------------------------------------------------------------------------
(* Properties of the fan-out *)

\* the adapter coroutines of the request that are in flight together at its peak:
\* asyncio.gather starts every coroutine it is given before it awaits any of them;
\* _get_all_businesses awaits its adapters one after the other
peak_in_flight ==
    IF route \in {"scan", "fixed_scan"} THEN Len(tasks)
    ELSE IF tasks = <<>> THEN 0 ELSE 1

\* the fixed number of slots: one per adapter for each search term that is searched
PoolSize == TermsSearched * Len(DiscoveryAdapters)

\* C19: during one search request the number of source-adapter calls in flight at
\* the same time never exceeds a fixed size, however many sources the request names
\* and however many search terms its industry has.
C19_InFlightBounded == peak_in_flight <= PoolSize

\* a request whose industry has more search terms than are searched, with every key
\* configured, fills the pool
C19_Witness ==
    /\ route = "fixed_scan"
    /\ search_term_count(request.industry) > TermsSearched
    /\ Len(tasks) = PoolSize
    /\ \A a \in Range(DiscoveryAdapters) : \E t \in DOMAIN tasks : tasks[t].adapter = a

-----------------------------------------------------------------------------
(* Properties of the base record *)

\* len(website) + len(phone) + len(email) + review_count
SumScore(b) == Len(b.website) + Len(b.phone) + Len(b.email) + b.review_count

\* (len(website), len(phone), len(email), review_count), compared from the left
TupleScore(b) == <<Len(b.website), Len(b.phone), Len(b.email), b.review_count>>

ScoreBelow(a, b) ==
    \/ a[1] < b[1]
    \/ a[1] = b[1] /\ a[2] < b[2]
    \/ a[1] = b[1] /\ a[2] = b[2] /\ a[3] < b[3]
    \/ a[1] = b[1] /\ a[2] = b[2] /\ a[3] = b[3] /\ a[4] < b[4]

\* the merged business carries the name and the address of its base record
BuiltOn(m, b) == m.name = b.name /\ m.address = b.address

\* position p holds the first record of the group with the greatest sum score
FirstOfGreatestSum(p, group, records) ==
    /\ \A q \in group : SumScore(records[q]) <= SumScore(records[p])
    /\ \A q \in group : q < p => SumScore(records[q]) < SumScore(records[p])

\* position p holds the first record of the group with the greatest tuple score
FirstOfGreatestTuple(p, group, records) ==
    /\ \A q \in group : ~ScoreBelow(TupleScore(records[p]), TupleScore(records[q]))
    /\ \A q \in group : q < p => ScoreBelow(TupleScore(records[q]), TupleScore(records[p]))

FirstOf(p, group) == \A q \in group : p <= q

fork_records == [i \in DOMAIN collected |-> ForkBusiness(collected[i])]

sum_score_records ==
    [i \in DOMAIN collected |->
        [website |-> fork_records[i].website, phone |-> fork_records[i].phone,
         email |-> NoText, review_count |-> fork_records[i].reviews]]

\* C20: within each dedup group the base record is the one with the greatest score
\* len(website) + len(phone) + len(email) + review_count, the first of them in input
\* order when several have that score; stated for aggregate_business_data (on the
\* first call for a list) and for the forked scan's merge.
C20_BaseHasGreatestSum ==
    /\ Len(runs) > 0 =>
          \A k \in DOMAIN runs[1] : \A p \in GroupOf(runs[1][k]) :
              FirstOfGreatestSum(p, GroupOf(runs[1][k]), normalized_records)
                  => BuiltOn(runs[1][k], normalized_records[p])
    /\ \A k \in DOMAIN deduped : \A p \in ForkGroupOf(deduped[k]) :
          FirstOfGreatestSum(p, ForkGroupOf(deduped[k]), sum_score_records)
              => BuiltOn(deduped[k], fork_records[p])

\* C20 as the code has it: aggregate_business_data takes the first record with the
\* greatest tuple (len(website), len(phone), len(email), review_count), compared
\* from the left; the forked scan takes the first record of the group.
C20_BaseHasGreatestTuple ==
    /\ Len(runs) > 0 =>
          \A k \in DOMAIN runs[1] : \A p \in GroupOf(runs[1][k]) :
              FirstOfGreatestTuple(p, GroupOf(runs[1][k]), normalized_records)
                  => BuiltOn(runs[1][k], normalized_records[p])
    /\ \A k \in DOMAIN deduped : \A p \in ForkGroupOf(deduped[k]) :
          FirstOf(p, ForkGroupOf(deduped[k])) => BuiltOn(deduped[k], fork_records[p])

\* a group was aggregated whose first record has the greatest sum but not the greatest
\* tuple, and the merged business is built on a later record
C20_Witness ==
    /\ Len(runs) > 0
    /\ \E k \in DOMAIN runs[1] : \E p, q \in GroupOf(runs[1][k]) :
          /\ p < q
          /\ FirstOfGreatestSum(p, GroupOf(runs[1][k]), normalized_records)
          /\ FirstOfGreatestTuple(q, GroupOf(runs[1][k]), normalized_records)
          /\ BuiltOn(runs[1][k], normalized_records[q])
          /\ ~BuiltOn(runs[1][k], normalized_records[p])

-----------------------------------------------------------------------------
(* Properties of the merged fields *)

\* the members of the group other than p that have a value for field f
OthersWith(p, group, records, f) ==
    {q \in group \ {p} : Get(records[q], f, NoText) # NoText}

\* fill-if-empty: the value of the record at p, otherwise the value of the first
\* other member of the group that has one, otherwise empty
FilledFrom(p, group, records, f) ==
    IF Get(records[p], f, NoText) # NoText THEN records[p][f]
    ELSE IF OthersWith(p, group, records, f) = {} THEN NoText
    ELSE records[CHOOSE q \in OthersWith(p, group, records, f) :
                    \A r \in OthersWith(p, group, records, f) : q <= r][f]

\* aggregate_business_data fills the contact fields of its base record
AggregateFillsIfEmpty ==
    Len(runs) > 0 =>
        \A k \in DOMAIN runs[1] : \A p \in GroupOf(runs[1][k]) :
            FirstOfGreatestTuple(p, GroupOf(runs[1][k]), normalized_records) =>
                \A f \in ContactFields :
                    runs[1][k][f] = FilledFrom(p, GroupOf(runs[1][k]), normalized_records, f)

\* the forked scan's merge does the same with its base record, the first of the group
ForkFillsIfEmpty ==
    \A k \in DOMAIN deduped : \A p \in ForkGroupOf(deduped[k]) :
        FirstOf(p, ForkGroupOf(deduped[k])) =>
            \A f \in ContactFields :
                deduped[k][f] = FilledFrom(p, ForkGroupOf(deduped[k]), fork_records, f)

\* C21: for each of website, phone and email of a merged group the merged value is the
\* base record's value when that is non-empty, otherwise the first non-empty value of
\* the other group members in input order, or empty when no member has one; stated
\* for aggregate_business_data and for the forked scan's merge.
C21_FillIfEmpty == AggregateFillsIfEmpty /\ ForkFillsIfEmpty

\* a base record without a phone got the phone of a later member of its group
AggregateFilledFromOther ==
    /\ Len(runs) > 0
    /\ \E k \in DOMAIN runs[1] : \E p \in GroupOf(runs[1][k]) :
          /\ FirstOfGreatestTuple(p, GroupOf(runs[1][k]), normalized_records)
          /\ normalized_records[p].phone = NoText
          /\ runs[1][k].phone # NoText

\* the greatest review count a directory reported for a record of the group
GreatestCount(group) ==
    CHOOSE n \in {collected[i].review_count : i \in group} :
        \A i \in group : collected[i].review_count <= n

AggregateKeepsGreatestCount ==
    \A r \in DOMAIN runs : \A k \in DOMAIN runs[r] :
        runs[r][k].review_count = GreatestCount(GroupOf(runs[r][k]))

ForkKeepsGreatestCount ==
    \A k \in DOMAIN deduped :
        deduped[k].review_count = GreatestCount(ForkGroupOf(deduped[k]))

\* C22: the review_count of a merged business is the greatest review_count of a single
\* record of its group, never the sum of the group's counts; stated for
\* aggregate_business_data and for the forked scan's merge.
C22_ReviewCountIsGroupMaximum == AggregateKeepsGreatestCount /\ ForkKeepsGreatestCount

\* aggregate_business_data merged two records that both have reviews
AggregateMergedTwoCounts ==
    /\ Len(runs) > 0
    /\ \E k \in DOMAIN runs[1] : \E i, j \in GroupOf(runs[1][k]) :
          /\ i # j
          /\ collected[i].review_count > 0
          /\ collected[j].review_count > 0

-----------------------------------------------------------------------------
(* Properties of the concentration bands *)

\* a calculation that produced a score
Scored ==
    /\ hhi_phase = "done"
    /\ hhi_proxy \in MarketShareProxies \cup {"business_specific"}
    /\ hhi_result.market_concentration \notin {"No Data", "Unknown"}

\* score <= limit for a fraction
AtMost(x, limit) == x.num <= limit * x.den

\* the DOJ/FTC band of a score: moderately concentrated from 1500 to 2500 inclusive
DOJBand(hhi) ==
    IF Below(hhi, Unconcentrated) THEN "Unconcentrated"
    ELSE IF AtMost(hhi, Concentrated) THEN "Moderately Concentrated"
    ELSE "Highly Concentrated"

FragmentationOf(band) ==
    CASE band = "Unconcentrated" -> "Highly Fragmented"
      [] band = "Moderately Concentrated" -> "Moderately Fragmented"
      [] OTHER -> "Consolidated"

RollupMatches ==
    Scored /\ hhi_proxy \in MarketShareProxies =>
        hhi_result.rollup_opportunity =
            IF Below(hhi_result.hhi_score, 1000) THEN "Excellent"
            ELSE IF Below(hhi_result.hhi_score, 1800) THEN "Good"
            ELSE IF Below(hhi_result.hhi_score, 2500) THEN "Moderate"
            ELSE "Limited"

BandMatches ==
    Scored =>
        /\ hhi_result.market_concentration = DOJBand(hhi_result.hhi_score)
        /\ hhi_proxy \in MarketShareProxies =>
              hhi_result.fragmentation_level = FragmentationOf(DOJBand(hhi_result.hhi_score))

\* C24: calculate_hhi_index and calculate_business_specific_hhi classify the score by
\* the DOJ/FTC bands: below 1500 unconcentrated / highly fragmented, from 1500 up to
\* and including 2500 moderately concentrated / fragmented, above 2500 highly
\* concentrated / consolidated; the roll-up label is Excellent below 1000, Good below
\* 1800, Moderate below 2500 and Limited otherwise.
C24_DOJBands == BandMatches /\ RollupMatches

\* away from the score 2500 the classification is the banded one
BandMatchesOffBoundary ==
    Scored /\ hhi_result.hhi_score.num # Concentrated * hhi_result.hhi_score.den =>
        /\ hhi_result.market_concentration = DOJBand(hhi_result.hhi_score)
        /\ hhi_proxy \in MarketShareProxies =>
              hhi_result.fragmentation_level = FragmentationOf(DOJBand(hhi_result.hhi_score))

\* an even market of more than four businesses was classified below the top band
ModerateBandSeen ==
    /\ Scored
    /\ hhi_result.market_concentration = "Moderately Concentrated"
    /\ hhi_result.rollup_opportunity = "Moderate"

-----------------------------------------------------------------------------
(* Properties of the order of the adapters *)

BothDone(runs_by_order) == \A o \in AdapterOrders : runs_by_order[o].done

\* the same set of businesses with the same field values
SameBusinesses(runs_by_order) ==
    \A o1, o2 \in AdapterOrders :
        Range(runs_by_order[o1].businesses) = Range(runs_by_order[o2].businesses)

AggregateOrderFree == BothDone(merged_in_order) => SameBusinesses(merged_in_order)

DiscoveryOrderFree == BothDone(discovered_in_order) => SameBusinesses(discovered_in_order)

\* C23: the merged result does not depend on the order in which the adapters' results
\* are combined: with the record lists of the adapters in either order the result is
\* the same set of businesses with the same field values; stated for
\* aggregate_business_data and for discover_businesses.
C23_AdapterOrderFree == AggregateOrderFree /\ DiscoveryOrderFree

\* the businesses agree on their grouping keys in either order
SameKeysInEitherOrder ==
    BothDone(merged_in_order) =>
        \A o1, o2 \in AdapterOrders :
            {GroupKey(b) : b \in Range(merged_in_order[o1].businesses)}
                = {GroupKey(b) : b \in Range(merged_in_order[o2].businesses)}

-----------------------------------------------------------------------------
(* Properties of the degenerate and the dominated market *)

\* C11: for every proxy, calculate_hhi_index on an empty list returns hhi_score 0 as
\* its normal 'No Data' result, and no business list, one whose values sum to zero
\* included, ends in the branch that catches a division by zero.
C11_NoDivisionError ==
    Calculated =>
        /\ hhi_result.market_concentration # "Unknown"
        /\ hhi_businesses = <<>> =>
              /\ hhi_result.hhi_score.num = 0
              /\ hhi_result.market_concentration = "No Data"

\* a calculation over businesses whose values are all zero, with a proxy that keeps a
\* zero share for each of them
C11_Witness ==
    /\ Calculated
    /\ hhi_businesses # <<>>
    /\ hhi_proxy \in {"reviews_weighted", "revenue"}
    /\ \A i \in DOMAIN hhi_businesses : ShareValue(hhi_businesses[i], hhi_proxy) = 0
    /\ hhi_result.hhi_score.num > 0

\* C12: for the ten businesses of which one holds 90% of the review-weighted value,
\* calculate_hhi_index with the review-weighted proxy returns hhi_score > 8100 and
\* fragmentation_level 'Highly Concentrated'.
C12_DominatedMarketScenario ==
    Calculated /\ hhi_businesses = DominatedMarket /\ hhi_proxy = "reviews_weighted" =>
        /\ hhi_result.hhi_score.num > 8100 * hhi_result.hhi_score.den
        /\ hhi_result.fragmentation_level = "Highly Concentrated"

\* C12 as the code has it: for that market the score is above 8100, the
\* market_concentration is 'Highly Concentrated' and the fragmentation_level is
\* 'Consolidated'.
C12_DominatedMarketResult ==
    Calculated /\ hhi_businesses = DominatedMarket /\ hhi_proxy = "reviews_weighted" =>
        /\ hhi_result.hhi_score.num > 8100 * hhi_result.hhi_score.den
        /\ hhi_result.market_concentration = "Highly Concentrated"
        /\ hhi_result.fragmentation_level = "Consolidated"

\* the dominated market has been analysed with the review-weighted proxy
C12_Witness ==
    /\ Calculated
    /\ hhi_businesses = DominatedMarket
    /\ hhi_proxy = "reviews_weighted"
    /\ hhi_result.fragmentation_level = "Consolidated"

-----------------------------------------------------------------------------
(* Properties of the revenue estimate *)

AtLeastFloor(call) == call.result.revenue_estimate >= MinimumRevenue * RevenueUnit

\* every estimate, the fallback of the `except` branch included, is at least the floor
RevenueAtLeastFloor == \A c \in DOMAIN revenue_calls : AtLeastFloor(revenue_calls[c])

\* C13: calculate_revenue_estimate returns at least 150000 for every input and never
\* raises; with zero reviews and zero pictures it returns exactly 150000.
C13_RevenueFloor ==
    \A c \in DOMAIN revenue_calls :
        /\ AtLeastFloor(revenue_calls[c])
        /\ revenue_calls[c].review_count = 0 /\ revenue_calls[c].picture_count = 0 =>
              revenue_calls[c].result.revenue_estimate = MinimumRevenue * RevenueUnit

\* C14: with the picture count, the industry and the additional factors held fixed,
\* the estimate does not decrease when the review count grows.
C14_MonotoneInReviews ==
    \A a, b \in DOMAIN revenue_calls :
        /\ revenue_calls[a].picture_count = revenue_calls[b].picture_count
        /\ revenue_calls[a].industry = revenue_calls[b].industry
        /\ revenue_calls[a].additional_factors = revenue_calls[b].additional_factors
        /\ revenue_calls[a].review_count <= revenue_calls[b].review_count
        => revenue_calls[a].result.revenue_estimate
               <= revenue_calls[b].result.revenue_estimate

\* two estimates of one business above the floor, the second with more reviews and a
\* strictly higher estimate
C14_Witness ==
    /\ Len(revenue_calls) = 2
    /\ revenue_calls[1].review_count < revenue_calls[2].review_count
    /\ revenue_calls[1].result.revenue_estimate > MinimumRevenue * RevenueUnit
    /\ revenue_calls[1].result.revenue_estimate < revenue_calls[2].result.revenue_estimate

-----------------------------------------------------------------------------
(* Properties of the business density *)

ZeroCountZeroDensity ==
    \A c \in DOMAIN density_calls :
        density_calls[c].businesses_count = 0 =>
            density_calls[c].result.business_density.num = 0

SameBase(a, b) ==
    /\ density_calls[a].location = density_calls[b].location
    /\ density_calls[a].use_households = density_calls[b].use_households

Doubled(a, b) ==
    /\ density_calls[b].businesses_count = 2 * density_calls[a].businesses_count
    /\ density_calls[a].businesses_count > 0

\* density of call b = 2 * density of call a, as fractions
DoubleDensity(a, b) ==
    density_calls[b].result.business_density.num
            * density_calls[a].result.business_density.den
        = 2 * density_calls[a].result.business_density.num
            * density_calls[b].result.business_density.den

SameUnknownAnalysis(a, b) ==
    /\ density_calls[a].location = Springfield
    /\ SameBase(a, b)
    /\ density_calls[a].businesses_count = density_calls[b].businesses_count

\* C25: for a location absent from the population table the density calculator uses one
\* fixed default population base: two analyses of the same unknown location with the
\* same business count return the same density, in the same or in different service
\* instances.
C25_UnknownLocationFixedBase ==
    \A a, b \in DOMAIN density_calls :
        SameUnknownAnalysis(a, b) => density_calls[a].result = density_calls[b].result

\* within one service instance the cached estimate makes the two analyses agree
UnknownLocationFixedPerService ==
    \A a, b \in DOMAIN density_calls :
        SameUnknownAnalysis(a, b) /\ density_calls[a].service = density_calls[b].service
            => density_calls[a].result = density_calls[b].result

-----------------------------------------------------------------------------
(* Properties of the relevance filters *)

InstitutionKeywords == {<<"c","h","u","r","c","h">>, <<"s","c","h","o","o","l">>, <<"g","o","v","e","r","n","m","e","n","t">>}

NamesInstitution(name) == \E k \in InstitutionKeywords : Contains(lower(name), k)

Rejects(answer, name, industry) ==
    answer # "none" /\ filter_input.name = name /\ lower(filter_input.industry) = industry
        => answer = "rejected"

Accepts(answer, name, industry) ==
    answer # "none" /\ filter_input.name = name /\ lower(filter_input.industry) = industry
        => answer = "accepted"

\* both filters reject 'First Baptist Church' for hvac
FirstBaptistRejected ==
    /\ Rejects(verdict.intelligence, FirstBaptistChurch, IndustryHvacKey)
    /\ Rejects(verdict.fixed, FirstBaptistChurch, IndustryHvacKey)

ExclusionWins(answer) ==
    answer # "none" /\ filter_input.industry # NoText /\ NamesInstitution(filter_input.name)
        => answer = "rejected"

\* the filter of intelligence_working_fixed.py rejects every institution name
FixedExclusionWins == ExclusionWins(verdict.fixed)

\* C16: for industry hvac the relevance filter rejects 'First Baptist Church', and a
\* name with an institution keyword (church, school, government) is rejected even
\* when it also holds a keyword of the requested industry.
C16_ExclusionBeatsIndustryKeyword ==
    /\ FirstBaptistRejected
    /\ ExclusionWins(verdict.intelligence)
    /\ ExclusionWins(verdict.fixed)

\* C17: an exclusion keyword the requested industry itself includes does not reject:
\* 'hospital' for healthcare, 'bank' for a financial industry.
C17_IndustryKeepsItsKeyword ==
    /\ Accepts(verdict.fixed, MercyHospital, Healthcare)
    /\ Accepts(verdict.fixed, FirstNationalBank, Financial)

\* the one keyword each conditional does govern: 'clinic' passes for healthcare
ClinicKeptForHealthcare == Accepts(verdict.fixed, ValleyClinic, Healthcare)

\* the industries that have an entry in the keyword table
TableIndustries ==
    {<<"h","v","a","c">>, <<"p","l","u","m","b","i","n","g">>, <<"e","l","e","c","t","r","i","c","a","l">>, <<"l","a","n","d","s","c","a","p","i","n","g">>, <<"a","u","t","o","m","o","t","i","v","e">>, <<"r","e","s","t","a","u","r","a","n","t">>}

\* every word of the exclusion list, the conditional ones included
ExclusionWords == Range(exclusion_keywords(NoText))

HoldsExclusionWord(name) == \E w \in ExclusionWords : Contains(lower(name), w)

Answered(answer) == answer # "none"

AbsentIndustry ==
    filter_input.industry # NoText /\ lower(filter_input.industry) \notin TableIndustries

EveryNamePasses(answer) == Answered(answer) /\ AbsentIndustry => answer = "accepted"

EmptyIndustryPasses(answer) ==
    Answered(answer) /\ filter_input.industry = NoText => answer = "accepted"

PlainNamePasses(answer) ==
    Answered(answer) /\ AbsentIndustry /\ ~HoldsExclusionWord(filter_input.name)
        => answer = "accepted"

\* C26: for an industry that has no entry in the keyword table the relevance filter
\* accepts every business name, and for an empty industry it accepts every name.
C26_AbsentIndustryAcceptsAll ==
    /\ EveryNamePasses(verdict.intelligence) /\ EveryNamePasses(verdict.fixed)
    /\ EmptyIndustryPasses(verdict.intelligence) /\ EmptyIndustryPasses(verdict.fixed)

\* C26 as the code has it: for an industry without an entry both filters accept every
\* name that holds no word of the exclusion list, and for an empty industry they accept
\* every name.
C26_AbsentIndustryAcceptsPlainNames ==
    /\ PlainNamePasses(verdict.intelligence) /\ PlainNamePasses(verdict.fixed)
    /\ EmptyIndustryPasses(verdict.intelligence) /\ EmptyIndustryPasses(verdict.fixed)

\* both filters answered for a name without exclusion word and an industry without entry
C26_Witness ==
    /\ AbsentIndustry
    /\ filter_input.name # NoText
    /\ ~HoldsExclusionWord(filter_input.name)
    /\ verdict.intelligence = "accepted"
    /\ verdict.fixed = "accepted"

\* a letter, a digit or an underscore
WordCharacter(c) ==
    c \in Range(UpperLetters) \cup Range(LowerLetters) \cup DigitChars \cup {"_"}

\* the keyword stands in the text as a whole word
WholeWordIn(text, keyword) ==
    \E i \in 1..(Len(text) - Len(keyword) + 1) :
        /\ \A j \in 1..Len(keyword) : text[i + j - 1] = keyword[j]
        /\ i > 1 => ~WordCharacter(text[i - 1])
        /\ i + Len(keyword) <= Len(text) => ~WordCharacter(text[i + Len(keyword)])

\* the name holds a required keyword of the industry: a keyword of more than two
\* characters anywhere, a shorter one as a whole word
HoldsKeyword(name, industry) ==
    \E k \in Range(industry_keywords(lower(industry))) :
        IF Len(k) > 2 THEN Contains(lower(name), k) ELSE WholeWordIn(lower(name), k)

HoldsPattern(name) == \E k \in Range(hvac_patterns) : Contains(lower(name), k)

ListedIndustry ==
    filter_input.industry # NoText /\ lower(filter_input.industry) \in TableIndustries

KeywordDecides(answer) ==
    Answered(answer) /\ ListedIndustry /\ ~HoldsExclusionWord(filter_input.name) =>
        (answer = "accepted" <=> HoldsKeyword(filter_input.name, filter_input.industry))

\* C27: for an industry of the keyword table a name with no exclusion keyword is
\* accepted exactly when it holds one of the industry's required keywords, a keyword of
\* more than 2 characters matching anywhere and one of 1-2 characters only as a whole
\* word.
C27_KeywordDecides == KeywordDecides(verdict.intelligence) /\ KeywordDecides(verdict.fixed)

\* C27 as the code has it: a non-empty name with no exclusion keyword is accepted by
\* intelligence.py exactly when it holds a required keyword; intelligence_working_fixed.py
\* accepts it also when the industry is hvac and the name holds one of hvac_patterns.
\* An empty name is accepted by both.
C27_KeywordOrPatternDecides ==
    /\ Answered(verdict.intelligence) /\ ListedIndustry
          /\ ~HoldsExclusionWord(filter_input.name) =>
          (verdict.intelligence = "accepted"
              <=> \/ filter_input.name = NoText
                  \/ HoldsKeyword(filter_input.name, filter_input.industry))
    /\ Answered(verdict.fixed) /\ ListedIndustry /\ ~HoldsExclusionWord(filter_input.name) =>
          (verdict.fixed = "accepted"
              <=> \/ filter_input.name = NoText
                  \/ HoldsKeyword(filter_input.name, filter_input.industry)
                  \/ /\ lower(filter_input.industry) = IndustryHvacKey
                     /\ HoldsPattern(filter_input.name))

\* 'Acme Air' holds 'ac' only inside a word and was rejected for hvac by both filters
C27_Witness ==
    /\ filter_input.name = AcmeAir
    /\ lower(filter_input.industry) = IndustryHvacKey
    /\ verdict.intelligence = "rejected"
    /\ verdict.fixed = "rejected"

\* 'AC Pros' holds 'ac' as a word and was accepted for hvac by both filters
ShortKeywordAccepted ==
    /\ filter_input.name = AcPros
    /\ lower(filter_input.industry) = IndustryHvacKey
    /\ verdict.intelligence = "accepted"
    /\ verdict.fixed = "accepted"

-----------------------------------------------------------------------------
(* Properties of the succession risk *)

InPoints(score) == score >= 0 /\ score <= 1000

SubScores(r) == <<r.age_risk, r.scale_risk, r.leadership_risk, r.digital_risk, r.performance_risk>>

IsWeightedSum(r) ==
    r.succession_risk_score
        = (30 * r.age_risk + 25 * r.scale_risk + 20 * r.leadership_risk
               + 15 * r.digital_risk + 10 * r.performance_risk) \div 1000

\* C28: each of the five sub-scores of calculate_business_succession_risk lies within
\* 0..100, and the overall score is their sum weighted 0.30/0.25/0.20/0.15/0.10 and so
\* lies within 0..100 as well
C28_SubScoresInRange ==
    risk_result.done =>
        /\ \A i \in 1..5 : InPoints(SubScores(risk_result)[i])
        /\ IsWeightedSum(risk_result)
        /\ risk_result.succession_risk_score \in 0..100

\* the four sub-scores other than the leadership signal lie within 0..100, and the
\* overall score is the weighted sum and lies within 0..100
OtherScoresInRange ==
    risk_result.done =>
        /\ \A i \in {1, 2, 4, 5} : InPoints(SubScores(risk_result)[i])
        /\ IsWeightedSum(risk_result)
        /\ risk_result.succession_risk_score \in 0..100

\* the leadership signal of a business never exceeds 110 points
LeadershipAtMost110 == risk_result.leadership_risk \in 0..1100

\* a family name and an old family domain give a leadership signal of 110 points
LeadershipReaches110 == risk_result.done /\ risk_result.leadership_risk = 1100

-----------------------------------------------------------------------------
(* Properties of the market overview *)

\* metrics.estimated_revenue of the returned businesses
reported_revenues ==
    [i \in DOMAIN overview.businesses |-> overview.businesses[i].metrics.estimated_revenue]

Analysed == overview.done /\ overview.businesses # <<>>

\* the shares of a market whose revenues are the reported ones, in lowest terms
SharesOfReported ==
    lowest_terms([shares |-> reported_revenues, total |-> SumSeq(reported_revenues)])

\* the shares calculate_hhi_index computed the index of the response from
SharesOfIndex == lowest_terms(market_share_percentages(overview.businesses, "revenue"))

TotalIsReportedSum == Analysed => overview.total_market_value = SumSeq(reported_revenues)

SharesAreReported == Analysed => SharesOfIndex = SharesOfReported

\* C29: the market figures of a scan response are computed from the per-business
\* values it reports: total_market_value is the sum of metrics.estimated_revenue over
\* the returned businesses, and the market HHI has those revenues as its shares
C29_OverviewFromReportedValues == TotalIsReportedSum /\ SharesAreReported

\* what the overview holds instead: every business counts for the minimum revenue,
\* so the total is the minimum times the number of businesses and the shares are even
OverviewOfMinimumRevenues ==
    Analysed =>
        /\ overview.total_market_value
               = Len(overview.businesses) * MinimumRevenue * RevenueUnit
        /\ overview.market_concentration.hhi_score.num * Len(overview.businesses)
               = HHIScale * overview.market_concentration.hhi_score.den

\* two businesses with different review counts and different reported revenues
DifferentReportedRevenues ==
    /\ Analysed
    /\ \E i, j \in DOMAIN overview.businesses :
          /\ overview.businesses[i].metrics.review_count
                # overview.businesses[j].metrics.review_count
          /\ reported_revenues[i] # reported_revenues[j]

-----------------------------------------------------------------------------
(* Properties of the returned list *)

Returned(r) == route = r /\ response.status_code = 200

AtMostRequested == Len(response.businesses) <= request.max_businesses

TotalIsLength == response.total_found = Len(response.businesses)

\* no two returned businesses have the same name.strip().lower()
DistinctNames ==
    \A i, j \in DOMAIN response.businesses :
        i # j => lower(strip(response.businesses[i].name))
                    # lower(strip(response.businesses[j].name))

ScanListLimited == Returned("scan") => AtMostRequested /\ TotalIsLength

ScanNamesDistinct == Returned("scan") => DistinctNames

ForkListLimited == Returned("fixed_scan") => AtMostRequested /\ TotalIsLength

ForkNamesDistinct == Returned("fixed_scan") => DistinctNames

\* C30: a scan asked for max_businesses = m returns at most m businesses (none when
\* m = 0), total_found is the length of the returned list, and no two returned
\* businesses have the same trimmed lower-cased name
C30_ListLimitedAndDistinct ==
    Returned("scan") \/ Returned("fixed_scan") =>
        AtMostRequested /\ TotalIsLength /\ DistinctNames

\* a forked scan asked for a positive number of businesses returns at most that many
ForkListLimitedWhenPositive ==
    Returned("fixed_scan") /\ request.max_businesses > 0 => AtMostRequested /\ TotalIsLength

\* a forked scan asked for no business returns businesses, up to the discovery default
ForkReturnsSomeForZero ==
    Returned("fixed_scan") /\ request.max_businesses = 0 =>
        Len(response.businesses) \in 1..DiscoveryDefault

====
